---------------------------- MODULE Spec2Model ----------------------------
(***************************************************************************)
(* A model of the godstow-river-flow scripts:                              *)
(*   scripts/fetch_data.py              update_history, calculate_percentile*)
(*   scripts/update_prediction_model.py fetch_archive_day,                 *)
(*                                      fetch_historic_data,               *)
(*                                      calculate_model_parameters, main   *)
(*                                                                         *)
(* Representation.                                                         *)
(*  - A Python str is a sequence of code points, so that slicing, 'in',    *)
(*    split, int(), float() and the lexicographic >= are computed as       *)
(*    Python computes them.                                                *)
(*  - A Python float is a fixed-point integer counting hundredths          *)
(*    (1.63 is 163); quotients are exact rationals <<num, den>>.           *)
(*  - A Python dict is a function; its insertion order is not modelled     *)
(*    because every consumer here sorts or looks up by key.                *)
(*  - A datetime is a record [day, hour, minute, second, micro] with day   *)
(*    counted from 2025-01-01.                                             *)
(***************************************************************************)
EXTENDS Integers, Sequences, FiniteSets, TLC

(***************************************************************************)
(* Python strings                                                          *)
(***************************************************************************)

\* ord() of the characters that occur in the modelled strings
Ord ==
    ("0" :> 48) @@ ("1" :> 49) @@ ("2" :> 50) @@ ("3" :> 51) @@ ("4" :> 52) @@
    ("5" :> 53) @@ ("6" :> 54) @@ ("7" :> 55) @@ ("8" :> 56) @@ ("9" :> 57) @@
    ("+" :> 43) @@ ("-" :> 45) @@ ("." :> 46) @@ (":" :> 58) @@ ("T" :> 84) @@
    ("Z" :> 90) @@ ("x" :> 120) @@ ("|" :> 124) @@ (" " :> 32)

\* a str literal, written as a tuple of one-character strings
Str(t) == [i \in 1..Len(t) |-> Ord[t[i]]]

IsDigit(c) == c >= Ord["0"] /\ c <= Ord["9"]

\* s[a:b] of a str or list: 0-based, end-exclusive; a negative bound counts
\* from the end; bounds are clamped to 0..len(s)
Slice(s, a, b) ==
    LET clamp(i) == LET k == IF i < 0 THEN i + Len(s) ELSE i
                    IN  IF k < 0 THEN 0 ELSE IF k > Len(s) THEN Len(s) ELSE k
        lo == clamp(a)
        hi == clamp(b)
    IN  IF hi <= lo THEN <<>> ELSE SubSeq(s, lo + 1, hi)

\* c in s
Contains(s, c) == \E i \in 1..Len(s) : s[i] = c

\* s.find(c), 1-based; 0 when absent
Find(s, c) ==
    IF Contains(s, c)
    THEN CHOOSE i \in 1..Len(s) : s[i] = c /\ \A j \in 1..(i - 1) : s[j] # c
    ELSE 0

\* s.split(c)[1] for a one-character separator that occurs in s
SplitSecond(s, c) ==
    LET rest == Slice(s, Find(s, c), Len(s))
        nxt  == Find(rest, c)
    IN  IF nxt = 0 THEN rest ELSE Slice(rest, 0, nxt - 1)

\* whether s starts with p
StartsWith(s, p) == Len(s) >= Len(p) /\ SubSeq(s, 1, Len(p)) = p

\* s.replace(old, new) for a non-empty old
RECURSIVE Replace(_, _, _)
Replace(s, old, new) ==
    IF s = <<>> THEN <<>>
    ELSE IF StartsWith(s, old)
         THEN new \o Replace(Slice(s, Len(old), Len(s)), old, new)
         ELSE <<Head(s)>> \o Replace(Tail(s), old, new)

\* a < b on str: code point by code point, a proper prefix being smaller
StrLess(a, b) ==
    LET shorter == IF Len(a) < Len(b) THEN Len(a) ELSE Len(b)
        differ  == {i \in 1..shorter : a[i] # b[i]}
        first   == CHOOSE i \in differ : \A j \in differ : i <= j
    IN  IF differ = {} THEN Len(a) < Len(b) ELSE a[first] < b[first]

\* a >= b on str
StrGe(a, b) == ~StrLess(a, b)

\* int(s) for an unsigned decimal literal; -1 stands for ValueError
PyInt(s) ==
    IF s = <<>> \/ \E i \in 1..Len(s) : ~IsDigit(s[i]) THEN -1
    ELSE LET RECURSIVE val(_)
             val(k) == IF k = 0 THEN 0 ELSE 10 * val(k - 1) + (s[k] - Ord["0"])
         IN  val(Len(s))

\* float(s) for literals d+, d+.d, d+.dd (value in hundredths);
\* ok = FALSE stands for ValueError
PyFloat(s) ==
    LET dot  == Find(s, Ord["."])
        ip   == IF dot = 0 THEN s ELSE Slice(s, 0, dot - 1)
        fp   == IF dot = 0 THEN <<>> ELSE Slice(s, dot, Len(s))
        fp2  == IF Len(fp) = 1 THEN fp \o <<Ord["0"]>> ELSE fp
        good == /\ PyInt(ip) >= 0
                /\ dot = 0 \/ (Len(fp) \in {1, 2} /\ PyInt(fp) >= 0)
    IN  IF good
        THEN [ok |-> TRUE,
              val |-> 100 * PyInt(ip) + (IF dot = 0 THEN 0 ELSE PyInt(fp2))]
        ELSE [ok |-> FALSE, val |-> 0]

\* n as two / four / six decimal digits (format specs %02d, %04d, %06d)
Pad2(n) == <<Ord["0"] + (n \div 10), Ord["0"] + (n % 10)>>
Pad4(n) == Pad2(n \div 100) \o Pad2(n % 100)
Pad6(n) == Pad2(n \div 10000) \o Pad4(n % 10000)

(***************************************************************************)
(* datetime                                                                *)
(***************************************************************************)

IsLeap(y) == (y % 4 = 0 /\ y % 100 # 0) \/ y % 400 = 0
YearLen(y) == IF IsLeap(y) THEN 366 ELSE 365
MonthLen(y, m) ==
    IF m = 2 THEN (IF IsLeap(y) THEN 29 ELSE 28)
    ELSE IF m \in {4, 6, 9, 11} THEN 30 ELSE 31

\* the civil date of day number d, day 0 being 2025-01-01
RECURSIVE DateFrom(_, _, _)
DateFrom(y, m, d) ==
    IF d >= YearLen(y) /\ m = 1 THEN DateFrom(y + 1, 1, d - YearLen(y))
    ELSE IF d >= MonthLen(y, m) THEN DateFrom(y, m + 1, d - MonthLen(y, m))
    ELSE [year |-> y, month |-> m, dom |-> d + 1]

CivilDate(day) == DateFrom(2025, 1, day)

\* date.strftime('%Y-%m-%d')
StrfDate(day) ==
    LET c == CivilDate(day)
    IN  Pad4(c.year) \o <<Ord["-"]>> \o Pad2(c.month) \o <<Ord["-"]>> \o Pad2(c.dom)

\* datetime.isoformat() of an aware UTC datetime
IsoFormat(dt) ==
    StrfDate(dt.day) \o <<Ord["T"]>> \o Pad2(dt.hour) \o <<Ord[":"]>>
        \o Pad2(dt.minute) \o <<Ord[":"]>> \o Pad2(dt.second)
        \o (IF dt.micro = 0 THEN <<>> ELSE <<Ord["."]>> \o Pad6(dt.micro))
        \o Str(<<"+", "0", "0", ":", "0", "0">>)

\* dt - timedelta(days=n)
MinusDays(dt, n) == [dt EXCEPT !.day = dt.day - n]

\* (dt - timedelta(days=n)).isoformat().replace('+00:00', 'Z')
CutoffString(now, n) ==
    Replace(IsoFormat(MinusDays(now, n)), Str(<<"+", "0", "0", ":", "0", "0">>),
            <<Ord["Z"]>>)

\* a < b on datetimes (the instants compared field by field; 32-bit safe)
DtLess(a, b) ==
    LET ka == <<a.day, a.hour, a.minute, a.second, a.micro>>
        kb == <<b.day, b.hour, b.minute, b.second, b.micro>>
    IN  \E i \in 1..5 : ka[i] < kb[i] /\ \A j \in 1..(i - 1) : ka[j] = kb[j]

\* the day number of a civil date from 2025-01-01 on
RECURSIVE DaysBeforeYear(_)
DaysBeforeYear(y) == IF y <= 2025 THEN 0 ELSE DaysBeforeYear(y - 1) + YearLen(y - 1)

RECURSIVE DaysBeforeMonth(_, _)
DaysBeforeMonth(y, m) == IF m <= 1 THEN 0 ELSE DaysBeforeMonth(y, m - 1) + MonthLen(y, m - 1)

DayNumber(y, m, d) == DaysBeforeYear(y) + DaysBeforeMonth(y, m) + d - 1

\* datetime.fromisoformat(s.replace('Z', '+00:00')) for the forms
\* YYYY-MM-DDTHH:MM:SS[.ffffff]Z ; ok = FALSE stands for ValueError
FromIsoFormat(s) ==
    LET y  == PyInt(Slice(s, 0, 4))
        mo == PyInt(Slice(s, 5, 7))
        d  == PyInt(Slice(s, 8, 10))
        h  == PyInt(Slice(s, 11, 13))
        mi == PyInt(Slice(s, 14, 16))
        se == PyInt(Slice(s, 17, 19))
        fr == Len(s) = 27
        us == IF fr THEN PyInt(Slice(s, 20, 26)) ELSE 0
        shape ==
            /\ Len(s) \in {20, 27}
            /\ s[5] = Ord["-"] /\ s[8] = Ord["-"] /\ s[11] = Ord["T"]
            /\ s[14] = Ord[":"] /\ s[17] = Ord[":"]
            /\ s[Len(s)] = Ord["Z"]
            /\ fr => s[20] = Ord["."]
        good ==
            /\ shape
            /\ y >= 2025 /\ mo \in 1..12 /\ d >= 1 /\ h \in 0..23
            /\ mi \in 0..59 /\ se \in 0..59 /\ us >= 0
            /\ d <= MonthLen(y, mo)
    IN  IF good
        THEN [ok |-> TRUE,
              dt |-> [day |-> DayNumber(y, mo, d), hour |-> h, minute |-> mi,
                      second |-> se, micro |-> us]]
        ELSE [ok |-> FALSE,
              dt |-> [day |-> 0, hour |-> 0, minute |-> 0, second |-> 0, micro |-> 0]]

(***************************************************************************)
(* Python dict and list helpers                                            *)
(***************************************************************************)

EmptyDict == <<>>

\* d[k] = v
DictSet(d, k, v) == (k :> v) @@ d

\* sorted(S) for a set of distinct str: each key at the position given by the
\* number of keys below it
SortedAsc(S) ==
    LET placed == {<<Cardinality({c \in S : StrLess(c, k)}) + 1, k>> : k \in S}
    IN  [i \in 1..Cardinality(S) |-> (CHOOSE p \in placed : p[1] = i)[2]]

\* list(reversed(s))
Reverse(s) == [i \in 1..Len(s) |-> s[Len(s) + 1 - i]]

\* the indices of a list
Idx(s) == 1..Len(s)

\* list(xs): the elements of an iterable, each evaluated once, as a list
List(xs) == <<>> \o xs

(***************************************************************************)
(* ReadingStore: the upsert shared by update_history and                   *)
(* fetch_historic_data                                                     *)
(***************************************************************************)

\* variants of the assignment below, against which the properties of the merge
\* are tried: one that leaves a key already present alone, one that adds to it
UpsertKeepOld(d, r) == IF r.timestamp \in DOMAIN d THEN d ELSE DictSet(d, r.timestamp, r.value)
UpsertAdd(d, r) ==
    IF r.timestamp \in DOMAIN d
    THEN DictSet(d, r.timestamp, d[r.timestamp] + r.value)
    ELSE DictSet(d, r.timestamp, r.value)

\* history_dict[r['timestamp']] = r['value']
Upsert(d, r) == DictSet(d, r.timestamp, r.value)

\* what "for r in readings[lo..hi]: d[r['timestamp']] = r['value']" makes of
\* an empty dict; a later assignment to a key replaces an earlier one, so the
\* loop over lo..hi is the loop over the second half laid over the loop over
\* the first half (the halving keeps the evaluation shallow)
RECURSIVE UpsertRange(_, _, _)
UpsertRange(readings, lo, hi) ==
    IF lo > hi THEN EmptyDict
    ELSE IF lo = hi THEN Upsert(EmptyDict, readings[lo])
    ELSE LET mid == (lo + hi) \div 2
         IN  UpsertRange(readings, mid + 1, hi) @@ UpsertRange(readings, lo, mid)

\* for r in readings: d[r['timestamp']] = r['value']
UpsertAll(d, readings) ==
    IF Len(readings) = 1 THEN Upsert(d, readings[1])
    ELSE UpsertRange(readings, 1, Len(readings)) @@ d

\* {r['timestamp']: r['value'] for r in history}
DictOfReadings(history) == UpsertAll(EmptyDict, history)

\* [{'timestamp': ts, 'value': val} for ts in keys]
ReadingsOf(d, keys) == [i \in 1..Len(keys) |-> [timestamp |-> keys[i], value |-> d[keys[i]]]]

\* the keys of d that pass "ts >= cutoff"
KeptKeys(d, cutoff) == {ts \in DOMAIN d : StrGe(ts, cutoff)}

(***************************************************************************)
(* Bounds of the model and constants of the program                        *)
(***************************************************************************)

\* runs of fetch_data.py that are followed
MaxRuns == 2

\* update_history(measure_id, existing_history, days=14)
days == 14

(***************************************************************************)
(* Inputs: the clock and the readings API                                  *)
(***************************************************************************)

At(d, h, mi, se, us) == [day |-> d, hour |-> h, minute |-> mi, second |-> se, micro |-> us]

\* a dateTime as the Environment Agency writes it: whole seconds, 'Z'
Stamp(d, h, mi) == CutoffString(At(d, h, mi, 0, 0), 0)

\* values datetime.now(timezone.utc) takes: 2026-01-01 02:00:00 exactly,
\* half a second later, and two hours later
Nows == {At(365, 2, 0, 0, 0), At(365, 2, 0, 0, 500000), At(365, 4, 0, 0, 0)}

\* an item of a readings.json answer, and one that lacks the 'value' key
Item(dateTime, value) == [dateTime |-> dateTime, value |-> value]
NoValue(dateTime) == [dateTime |-> dateTime]

\* dateTime values at and after the 14-day cutoff of the first clock (both
\* before the cutoff of the last), and one that is no date
Early == Stamp(351, 2, 0)
Late == Stamp(351, 2, 15)
NoDate == Str(<<"x">>)

\* the 'items' of the answers that are followed: no item, one item, two items
\* with different or equal dateTime, and items that are malformed
ApiBatches ==
    {<<>>,
     <<Item(Early, 10)>>, <<Item(Early, 20)>>, <<Item(Late, 10)>>,
     <<Item(Late, 10), Item(Early, 10)>>, <<Item(Early, 20), Item(Late, 20)>>,
     <<Item(Early, 10), Item(Early, 20)>>, <<Item(Late, 20), Item(Late, 10)>>,
     <<Item(NoDate, 10)>>, <<Item(NoDate, 20), Item(Late, 10)>>,
     <<NoValue(Late)>>, <<Item(Early, 10), NoValue(Late)>>}

\* what requests.get(readings_url) does: answer 200 with items, answer another
\* status, or raise
ApiResponses ==
    [kind : {"ok"}, status : {200}, items : ApiBatches]
        \cup [kind : {"ok"}, status : {503}, items : {<<>>}]
        \cup [kind : {"raise"}, status : {0}, items : {<<>>}]

(***************************************************************************)
(* scripts/fetch_data.py                                                   *)
(***************************************************************************)

\* fetch_all_readings_for_period: a failed request, a status other than 200 and
\* an item without 'dateTime' or 'value' (KeyError) all give []
fetch_all_readings_for_period(resp) ==
    IF resp.kind = "raise" THEN <<>>
    ELSE IF resp.status # 200 THEN <<>>
    ELSE IF \E i \in Idx(resp.items) :
                ~({"dateTime", "value"} \subseteq DOMAIN resp.items[i])
         THEN <<>>
         ELSE [i \in Idx(resp.items) |->
                  [timestamp |-> resp.items[i].dateTime, value |-> resp.items[i].value]]

\* history_dict after the merge loop of update_history
MergeHistory(existing, api) == UpsertAll(DictOfReadings(existing), api)

\* filtered: the readings with ts >= cutoff, newest first
TrimNewestFirst(d, cutoff) == ReadingsOf(d, Reverse(SortedAsc(KeptKeys(d, cutoff))))

(***************************************************************************)
(* scripts/update_prediction_model.py: the archive                         *)
(***************************************************************************)

Keys == <<"godstow", "osney", "farmoor">>
KeySet == {"godstow", "osney", "farmoor"}

\* MEASURE_URLS (the measure ids stand for the URLs)
MEASURE_URLS ==
    [godstow |-> "1302TH-level-downstage-i-15_min-mASD",
     osney   |-> "1303TH-level-stage-i-15_min-mASD",
     farmoor |-> "1100TH-flow--Mean-15_min-m3_s"]

\* What one CSV row does to the readings of fetch_archive_day:
\*   [kind |-> "skip"]                     the row is passed over
\*   [kind |-> "append", key, reading]     a reading is appended
\*   [kind |-> "raise"]                    an exception leaves the for loop
\* row.short says that the line had no value column (DictReader gives None).
RowOutcome(row) ==
    LET timestamp == row.dateTime
        hasT      == Contains(timestamp, Ord["T"])
        time_part == Slice(SplitSecond(timestamp, Ord["T"]), 0, 5)
        hour      == PyInt(Slice(time_part, 0, 2))
        minute    == PyInt(Slice(time_part, 3, 5))
        matching  == {k \in KeySet : MEASURE_URLS[k] = row.measure}
        key       == CHOOSE k \in matching : TRUE
        parsed    == PyFloat(row.value)
        skip      == [kind |-> "skip", key |-> "", reading |-> [timestamp |-> <<>>, value |-> 0]]
    IN  IF hasT /\ (hour < 0 \/ minute < 0)
        THEN [skip EXCEPT !.kind = "raise"]          \* int() raises ValueError
        ELSE IF hasT /\ (hour % 2 # 0 \/ minute # 0)
        THEN skip                                    \* not on the 2-hour grid
        ELSE IF matching = {}
        THEN skip                                    \* another measure
        ELSE IF row.short
        THEN [skip EXCEPT !.kind = "raise"]          \* '|' in None: TypeError
        ELSE IF Contains(row.value, Ord["|"])
        THEN skip                                    \* sentinel value
        ELSE IF ~parsed.ok
        THEN skip                                    \* float() ValueError, passed
        ELSE [kind |-> "append", key |-> key,
              reading |-> [timestamp |-> timestamp, value |-> parsed.val]]

NoReadings == [k \in KeySet |-> <<>>]

\* the readings built from the first n rows
RECURSIVE RowsReadings(_, _)
RowsReadings(rows, n) ==
    IF n = 0 THEN NoReadings
    ELSE LET sofar == RowsReadings(rows, n - 1)
             o     == RowOutcome(rows[n])
         IN  IF o.kind = "append"
             THEN [sofar EXCEPT ![o.key] = Append(@, o.reading)]
             ELSE sofar

\* a variant of fetch_archive_day that reads the rows whatever the status
FetchAnyStatus(resp) ==
    IF resp.kind = "raise" THEN [ok |-> FALSE, readings |-> NoReadings]
    ELSE IF \E i \in Idx(resp.rows) : RowOutcome(resp.rows[i]).kind = "raise"
         THEN [ok |-> FALSE, readings |-> NoReadings]
         ELSE [ok |-> TRUE, readings |-> RowsReadings(resp.rows, Len(resp.rows))]

\* fetch_archive_day: ok = FALSE stands for the return value None
fetch_archive_day(resp) ==
    IF resp.kind = "raise" THEN [ok |-> FALSE, readings |-> NoReadings]
    ELSE IF resp.status # 200 THEN [ok |-> FALSE, readings |-> NoReadings]
    ELSE IF \E i \in Idx(resp.rows) : RowOutcome(resp.rows[i]).kind = "raise"
         THEN [ok |-> FALSE, readings |-> NoReadings]
         ELSE [ok |-> TRUE, readings |-> RowsReadings(resp.rows, Len(resp.rows))]

\* load_existing_data: a missing or unreadable file gives empty dicts
load_existing_data(file) ==
    IF file.state = "ok"
    THEN [k \in KeySet |-> DictOfReadings(file.history[k])]
    ELSE [k \in KeySet |-> EmptyDict]

\* the dates list of fetch_historic_data: start_date .. end_date as '%Y-%m-%d'
FetchDates(now, days_to_fetch) ==
    LET end_day   == now.day - 1
        start_day == end_day - days_to_fetch
    IN  [i \in 1..(days_to_fetch + 1) |-> StrfDate(start_day + i - 1)]

\* the upserts of one partition in the order of the loops
\* "for key in [...]: for r in readings[key]", as <<key, reading>> pairs
FlatReadings(readings) ==
    LET one(k) == [i \in Idx(readings[k]) |-> <<k, readings[k][i]>>]
    IN  one(Keys[1]) \o one(Keys[2]) \o one(Keys[3])

\* a variant of the assignment below that starts the channel's dict afresh
UpsertKeyAfresh(all, key, r) == [all EXCEPT ![key] = Upsert(EmptyDict, r)]

\* all_readings[key][r['timestamp']] = r['value']
UpsertKey(all, key, r) == [all EXCEPT ![key] = Upsert(@, r)]

\* the whole of one partition applied to the shared map
ApplyPartition(all, readings) ==
    [k \in KeySet |-> UpsertAll(all[k], readings[k])]

\* result[key]: the readings with ts >= cutoff, oldest first
TrimOldestFirst(d, cutoff) == ReadingsOf(d, SortedAsc(KeptKeys(d, cutoff)))

(***************************************************************************)
(* Exact arithmetic: a quotient of floats is a rational <<num, den>> in     *)
(* lowest terms with den > 0                                               *)
(***************************************************************************)

Abs(a) == IF a < 0 THEN -a ELSE a

RECURSIVE Gcd(_, _)
Gcd(a, b) == IF b = 0 THEN a ELSE Gcd(b, a % b)

Rat(n, d) ==
    LET g == Gcd(Abs(n), Abs(d))
    IN  IF d < 0 THEN <<(-n) \div g, (-d) \div g>> ELSE <<n \div g, d \div g>>

RInt(i) == <<i, 1>>
RNeg(p) == <<-p[1], p[2]>>

RAdd(p, q) ==
    LET g == Gcd(p[2], q[2])
    IN  Rat(p[1] * (q[2] \div g) + q[1] * (p[2] \div g), (p[2] \div g) * q[2])

RSub(p, q) == RAdd(p, RNeg(q))

RMul(p, q) ==
    LET g1 == Gcd(Abs(p[1]), q[2])
        g2 == Gcd(Abs(q[1]), p[2])
    IN  IF p[1] = 0 \/ q[1] = 0 THEN <<0, 1>>
        ELSE <<(p[1] \div g1) * (q[1] \div g2), (p[2] \div g2) * (q[2] \div g1)>>

\* p / q for q # 0
RDiv(p, q) == RMul(p, IF q[1] < 0 THEN <<-q[2], -q[1]>> ELSE <<q[2], q[1]>>)

RLess(p, q) == RSub(p, q)[1] < 0
RSign(p) == IF p[1] > 0 THEN 1 ELSE IF p[1] < 0 THEN -1 ELSE 0

\* sum(terms) of a list of rationals (exact, so the grouping is immaterial;
\* the halving keeps the evaluation shallow)
RECURSIVE RSumRange(_, _, _)
RSumRange(terms, lo, hi) ==
    IF lo > hi THEN <<0, 1>>
    ELSE IF lo = hi THEN terms[lo]
    ELSE LET mid == (lo + hi) \div 2
         IN  RAdd(RSumRange(terms, lo, mid), RSumRange(terms, mid + 1, hi))

RSum(terms) == RSumRange(terms, 1, Len(terms))

RECURSIVE Pow10(_)
Pow10(k) == IF k = 0 THEN 1 ELSE 10 * Pow10(k - 1)

\* round(p, places): to the nearest multiple of 10^-places, ties to even
Round(p, places) ==
    LET scaled == RMul(p, RInt(Pow10(places)))
        fl     == scaled[1] \div scaled[2]          \* floor
        twice  == 2 * (scaled[1] - fl * scaled[2])  \* 2 * remainder
        up     == twice > scaled[2] \/ (twice = scaled[2] /\ fl % 2 # 0)
    IN  Rat(IF up THEN fl + 1 ELSE fl, Pow10(places))

(***************************************************************************)
(* scripts/update_prediction_model.py: calculate_model_parameters          *)
(***************************************************************************)

\* "if len(paired_data) < 100"
MinPaired == 100
\* the 1.63 of "(godstow[ts] - osney[ts]) - 1.63", in hundredths
FlowOffset == 163
\* the flow levels 0.45 and 0.75 of the thresholds, in hundredths
GreenAmberFlow == 45
AmberRedFlow == 75

\* the keys of {r['timestamp']: ... for r in history} in insertion order
KeysInOrder(history) ==
    LET first(i) == \A j \in 1..(i - 1) : history[j].timestamp # history[i].timestamp
        firsts   == SelectSeq([i \in Idx(history) |-> i], first)
    IN  [i \in Idx(firsts) |-> history[firsts[i]].timestamp]

\* paired_data: one (farmoor, flow) pair for each timestamp of godstow that is
\* also in osney and in farmoor
PairedData(data) ==
    LET godstow == DictOfReadings(data.godstow_history)
        osney   == DictOfReadings(data.osney_history)
        farmoor == DictOfReadings(data.farmoor_history)
        order   == KeysInOrder(data.godstow_history)
        both(ts) == ts \in DOMAIN osney /\ ts \in DOMAIN farmoor
        common  == SelectSeq(order, both)
    IN  [i \in Idx(common) |->
            <<farmoor[common[i]], (godstow[common[i]] - osney[common[i]]) - FlowOffset>>]

NoParams ==
    [slope |-> <<0, 1>>, intercept |-> <<0, 1>>, r_squared |-> <<0, 1>>,
     correlation |-> [sign |-> 0, square |-> <<0, 1>>], n_samples |-> 0,
     thresholds |-> [green_amber |-> <<0, 1>>, amber_red |-> <<0, 1>>]]

Raised(what, line) == [raised |-> what, line |-> line, params |-> NoParams]

\* a variant of Mean that divides by n - 1
MeanBessel(total, n) == RDiv(total, RInt(n - 1))

\* total / n, the division of a sum by the number of samples
Mean(total, n) == RDiv(total, RInt(n))

\* The statements of calculate_model_parameters from "farm_vals = ..." on.
\* correlation = cov / sqrt(var_farm * var_flow) is kept as its sign and its
\* square, which determine it.
Regression(paired_data) ==
    LET n         == Len(paired_data)
        farm(i)   == RInt(paired_data[i][1])
        flow(i)   == RInt(paired_data[i][2])
        mean_farm == Mean(RSum([i \in 1..n |-> farm(i)]), n)
        mean_flow == Mean(RSum([i \in 1..n |-> flow(i)]), n)
        numerator ==
            RSum([i \in 1..n |-> RMul(RSub(farm(i), mean_farm), RSub(flow(i), mean_flow))])
        denominator ==
            RSum([i \in 1..n |-> RMul(RSub(farm(i), mean_farm), RSub(farm(i), mean_farm))])
        slope     == RDiv(numerator, denominator)
        intercept == RSub(mean_flow, RMul(slope, mean_farm))
        predicted(i) == RAdd(RMul(slope, farm(i)), intercept)
        ss_res ==
            RSum([i \in 1..n |->
                    RMul(RSub(flow(i), predicted(i)), RSub(flow(i), predicted(i)))])
        ss_tot ==
            RSum([i \in 1..n |-> RMul(RSub(flow(i), mean_flow), RSub(flow(i), mean_flow))])
        r_squared == RSub(RInt(1), RDiv(ss_res, ss_tot))
        var_farm  == Mean(denominator, n)
        var_flow  == Mean(ss_tot, n)
        cov       == Mean(numerator, n)
        correlation ==
            [sign |-> RSign(cov),
             square |-> RMul(RDiv(cov, var_farm), RDiv(cov, var_flow))]
        green_amber == RDiv(RSub(RInt(GreenAmberFlow), intercept), slope)
        amber_red   == RDiv(RSub(RInt(AmberRedFlow), intercept), slope)
    IN  IF denominator[1] = 0 THEN Raised("ZeroDivisionError", 172)
        ELSE IF ss_tot[1] = 0 THEN Raised("ZeroDivisionError", 179)
        ELSE IF var_farm[1] = 0 \/ var_flow[1] = 0 THEN Raised("ZeroDivisionError", 185)
        ELSE IF slope[1] = 0 THEN Raised("ZeroDivisionError", 188)
        ELSE [raised |-> "", line |-> 0,
              params |-> [slope |-> slope, intercept |-> intercept,
                          r_squared |-> r_squared, correlation |-> correlation,
                          n_samples |-> n,
                          thresholds |-> [green_amber |-> green_amber,
                                          amber_red |-> amber_red]]]

\* calculate_model_parameters(data): raised = "" when it returns
calculate_model_parameters(data) ==
    LET paired_data == PairedData(data)
    IN  IF Len(paired_data) < MinPaired
        THEN Raised("ValueError", 159)
        ELSE Regression(paired_data)

(***************************************************************************)
(* scripts/update_prediction_model.py: peaks and exponential decay         *)
(*                                                                         *)
(* A reading is <<dt, value>>.  math.log(ratio) is exact for the ratios    *)
(* 1/2^k, where it is -k * ln 2; logarithms are therefore counted in units *)
(* of ln 2, and a number carrying such a unit is [coef, unit] with unit    *)
(* "1", "ln2" (coef * ln 2) or "1/ln2" (coef / ln 2).                      *)
(***************************************************************************)

\* the defaults and thresholds of calculate_farmoor_decay and
\* calculate_flow_differential_decay (values in hundredths)
FarmoorMinPeak == 3000
FarmoorMinRise == 500
FarmoorDefaultTau == 112
FarmoorFallbackBaseline == 100
DiffMinPeak == 30
DiffMinRise == 10
DiffDefaultTau == 70
PeakWindow == 6
MinGapDays == 3

\* _fit_exponential_decay: the baseline window, the lookahead, the re-rise
\* test and the acceptance limits
BaselineFrom == 84
BaselineTo == 12
MaxLookahead == 180
ReriseAfterHours == 12
ReriseSpan == 3
MinDecayPoints == 6
MinLogPoints == 4

\* dt + timedelta(days=n)
PlusDays(dt, n) == [dt EXCEPT !.day = dt.day + n]

\* (a - b).total_seconds() / 3600
HoursBetween(a, b) ==
    LET whole == RInt(24 * (a.day - b.day) + (a.hour - b.hour))
        secs  == Rat(60 * (a.minute - b.minute) + (a.second - b.second), 3600)
        us    == IF a.micro = b.micro THEN <<0, 1>>
                 ELSE RDiv(Rat(a.micro - b.micro, 1000000), RInt(3600))
    IN  RAdd(RAdd(whole, secs), us)

\* readings.sort(key=lambda x: x[0]): a stable sort by instant
SortByTime(readings) ==
    LET rs == List(readings)
        before(j, i) ==
            \/ DtLess(rs[j][1], rs[i][1])
            \/ rs[j][1] = rs[i][1] /\ j < i
        placed == {<<Cardinality({j \in Idx(rs) : before(j, i)}) + 1, rs[i]>> : i \in Idx(rs)}
    IN  [p \in Idx(rs) |-> (CHOOSE q \in placed : q[1] = p)[2]]

\* whether a parsed timestamp is kept by _to_2h_readings: a ValueError of
\* fromisoformat skips the reading, as does an instant off the 2-hour grid
OnGrid(parsed) == parsed.ok /\ parsed.dt.hour % 2 = 0 /\ parsed.dt.minute = 0

\* a variant of _to_2h_readings below without its final sort, against which
\* the order of the result is tried
ToReadingsUnsorted(history_list) ==
    LET keep(r) == "value" \in DOMAIN r /\ OnGrid(FromIsoFormat(r.timestamp))
        pair(r) == <<FromIsoFormat(r.timestamp).dt, r.value>>
        kept    == SelectSeq(history_list, keep)
    IN  [k \in Idx(kept) |-> pair(kept[k])]

\* _to_2h_readings: the readings on the 2-hour grid as <<dt, value>>, sorted;
\* r.get('value') is None for a reading without the key 'value'
_to_2h_readings(history_list) ==
    LET keep(r) == "value" \in DOMAIN r /\ OnGrid(FromIsoFormat(r.timestamp))
        pair(r) == <<FromIsoFormat(r.timestamp).dt, r.value>>
        kept    == SelectSeq(history_list, keep)
    IN  SortByTime([k \in Idx(kept) |-> pair(kept[k])])

\* max(values) of a non-empty set of integers
MaxOf(S) == CHOOSE m \in S : \A v \in S : v <= m
MinOf(S) == CHOOSE m \in S : \A v \in S : m <= v

\* variants of the loop body below, against which the properties of the scan
\* are tried: one without the test against the window, one without the test
\* of the gap, one where the later of two equal candidates wins
PeakStepAnyValue(readings, peaks, i, min_peak, window, min_gap_days) ==
    IF readings[i + 1][2] < min_peak THEN peaks
    ELSE Append(peaks, <<i, readings[i + 1][1], readings[i + 1][2]>>)

PeakStepNoGap(readings, peaks, i, min_peak, window, min_gap_days) ==
    LET val == readings[i + 1][2]
        window_vals == {readings[j + 1][2] : j \in (i - window)..(i + window)}
    IN  IF val < min_peak \/ val # (CHOOSE m \in window_vals : \A v \in window_vals : v <= m)
        THEN peaks
        ELSE Append(peaks, <<i, readings[i + 1][1], val>>)

PeakStepLaterWins(readings, peaks, i, min_peak, window, min_gap_days) ==
    LET ts  == readings[i + 1][1]
        val == readings[i + 1][2]
        window_vals == {readings[j + 1][2] : j \in (i - window)..(i + window)}
        last == peaks[Len(peaks)]
    IN  IF val < min_peak \/ val # (CHOOSE m \in window_vals : \A v \in window_vals : v <= m)
        THEN peaks
        ELSE IF peaks = <<>> \/ DtLess([last[2] EXCEPT !.day = @ + min_gap_days], ts)
             THEN Append(peaks, <<i, ts, val>>)
        ELSE IF val >= last[3]
             THEN [peaks EXCEPT ![Len(peaks)] = <<i, ts, val>>]
             ELSE peaks

\* one iteration of the for loop of _find_peaks, for the 0-based index i;
\* a peak is <<i, ts, val>>
PeakStep(readings, peaks, i, min_peak, window, min_gap_days) ==
    LET ts  == readings[i + 1][1]
        val == readings[i + 1][2]
        window_vals == {readings[j + 1][2] : j \in (i - window)..(i + window)}
        last == peaks[Len(peaks)]
    IN  IF val < min_peak THEN peaks
        ELSE IF val # MaxOf(window_vals) THEN peaks
        ELSE IF peaks = <<>> \/ DtLess(PlusDays(last[2], min_gap_days), ts)
             THEN Append(peaks, <<i, ts, val>>)
        ELSE IF val > last[3]
             THEN [peaks EXCEPT ![Len(peaks)] = <<i, ts, val>>]
             ELSE peaks

\* the iterations lo..hi of that loop in order: lo..mid first, then the rest
\* from what they left (the halving keeps the evaluation shallow)
RECURSIVE PeakScan(_, _, _, _, _, _, _)
PeakScan(readings, peaks, lo, hi, min_peak, window, min_gap_days) ==
    IF lo > hi THEN peaks
    ELSE IF lo = hi THEN PeakStep(readings, peaks, lo, min_peak, window, min_gap_days)
    ELSE LET mid   == (lo + hi) \div 2
             first == PeakScan(readings, peaks, lo, mid, min_peak, window, min_gap_days)
         IN  IF first = <<>>
             THEN PeakScan(readings, <<>>, mid + 1, hi, min_peak, window, min_gap_days)
             ELSE PeakScan(readings, first, mid + 1, hi, min_peak, window, min_gap_days)

\* _find_peaks(readings, min_peak, window, min_gap): range(window, len - window)
_find_peaks(readings, min_peak, window, min_gap_days) ==
    PeakScan(readings, <<>>, window, Len(readings) - window - 1,
             min_peak, window, min_gap_days)

\* math.log(ratio) in units of ln 2, for ratio = 1/2^k
RECURSIVE Pow2(_)
Pow2(k) == IF k = 0 THEN 1 ELSE 2 * Pow2(k - 1)

LogUnits(ratio) == RInt(-(CHOOSE k \in 0..7 : ratio = <<1, Pow2(k)>>))

\* a number with a unit, see above
Num(coef, unit) == [coef |-> coef, unit |-> unit]

NoFit(why) ==
    [status |-> why, peak_time |-> At(0, 0, 0, 0, 0), peak_val |-> 0, baseline |-> 0,
     amplitude |-> 0, decay_points |-> 0, fit_points |-> 0,
     tau_hours |-> Num(<<0, 1>>, "1/ln2"), half_life_hours |-> Num(<<0, 1>>, "1"),
     r_squared |-> <<0, 1>>]

\* baseline_readings for the peak at the 0-based index idx
BaselineReadings(readings, idx) ==
    LET from    == IF idx - BaselineFrom > 0 THEN idx - BaselineFrom ELSE 0
        window1 == Slice(readings, from, idx - BaselineTo)
    IN  IF window1 # <<>> THEN window1 ELSE Slice(readings, from, idx)

\* a variant of the inner loop below without its test of a new rise, against
\* which the property of the decay points is tried
DecayPointsNoRerise(readings, peaks, p, min_rise_threshold) ==
    LET idx      == peaks[p][1]
        last_j   == (IF idx + MaxLookahead < Len(readings)
                     THEN idx + MaxLookahead ELSE Len(readings)) - 1
        stops    == {j \in idx..last_j :
                        p + 1 <= Len(peaks) /\ ~DtLess(readings[j + 1][1], peaks[p + 1][2])}
        end_j    == IF stops = {} THEN last_j ELSE MinOf(stops) - 1
    IN  [k \in 1..(end_j - idx + 1) |->
            <<HoursBetween(readings[idx + k][1], peaks[p][2]), readings[idx + k][2]>>]

\* decay_points of peaks[p] (p from 1): the <<hours, val>> from the peak to the
\* first break of the inner loop
DecayPoints(readings, peaks, p, min_rise_threshold) ==
    LET idx      == peaks[p][1]
        peak_ts  == peaks[p][2]
        has_next == p + 1 <= Len(peaks)
        last_j   == (IF idx + MaxLookahead < Len(readings)
                     THEN idx + MaxLookahead ELSE Len(readings)) - 1
        hours    == [j \in idx..last_j |-> HoursBetween(readings[j + 1][1], peak_ts)]
        stop(j)  ==
            \/ has_next /\ ~DtLess(readings[j + 1][1], peaks[p + 1][2])
            \/ /\ RLess(RInt(ReriseAfterHours), hours[j])
               /\ j > idx + ReriseSpan
               /\ readings[j + 1][2] > readings[j - ReriseSpan + 1][2] + min_rise_threshold
        stops    == {j \in idx..last_j : stop(j)}
        end_j    == IF stops = {} THEN last_j ELSE MinOf(stops) - 1
    IN  [k \in 1..(end_j - idx + 1) |-> <<hours[idx + k - 1], readings[idx + k][2]>>]

\* log_points: <<hours, math.log(ratio)>> for the ratios in (0.01, 1]
LogPoints(decay_points, baseline, amplitude) ==
    LET ratio   == [k \in Idx(decay_points) |-> Rat(decay_points[k][2] - baseline, amplitude)]
        in_band(k) == RLess(<<1, 100>>, ratio[k]) /\ ~RLess(<<1, 1>>, ratio[k])
        band    == SelectSeq([k \in Idx(decay_points) |-> k], in_band)
    IN  [k \in Idx(band) |-> <<decay_points[band[k]][1], LogUnits(ratio[band[k]])>>]

\* n and the four sums of the regression on log_points
LogSums(log_points) ==
    LET n == Len(log_points)
    IN  [n      |-> n,
         sum_x  |-> RSum([k \in 1..n |-> log_points[k][1]]),
         sum_y  |-> RSum([k \in 1..n |-> log_points[k][2]]),
         sum_xy |-> RSum([k \in 1..n |-> RMul(log_points[k][1], log_points[k][2])]),
         sum_xx |-> RSum([k \in 1..n |-> RMul(log_points[k][1], log_points[k][1])])]

\* a variant of the end of the loop body below that appends whatever r_sq is,
\* against which the property of the accepted fits is tried
FitOfSlopeAnyFit(fit, log_points, sums, slope) ==
    [fit EXCEPT !.status = "fit", !.fit_points = sums.n,
                !.tau_hours = Num(RDiv(RInt(-1), slope), "1/ln2"),
                !.half_life_hours = Num(RDiv(RInt(-1), slope), "1"),
                !.r_squared = <<0, 1>>]

\* the end of the loop body, from "tau = -1.0 / slope" on, for a slope below 0;
\* a fit that is not appended keeps the locals n and r_sq
FitOfSlope(fit, log_points, sums, slope) ==
    LET mean_y == RDiv(sums.sum_y, RInt(sums.n))
        dev    == [k \in 1..sums.n |-> RSub(log_points[k][2], mean_y)]
        resid  == [k \in 1..sums.n |-> RSub(log_points[k][2], RMul(slope, log_points[k][1]))]
        ss_tot == RSum([k \in 1..sums.n |-> RMul(dev[k], dev[k])])
        ss_res == RSum([k \in 1..sums.n |-> RMul(resid[k], resid[k])])
        r_sq   == IF ss_tot[1] > 0 THEN RSub(RInt(1), RDiv(ss_res, ss_tot)) ELSE <<0, 1>>
        tau    == RDiv(RInt(-1), slope)
    IN  IF ~RLess(<<1, 2>>, r_sq)
        THEN [fit EXCEPT !.status = "poor_fit", !.fit_points = sums.n, !.r_squared = r_sq]
        ELSE [fit EXCEPT !.status = "fit", !.fit_points = sums.n,
                         !.tau_hours = Num(tau, "1/ln2"),
                         !.half_life_hours = Num(tau, "1"), !.r_squared = r_sq]

\* the loop body from "n = len(log_points)" on
FitOfSums(fit, log_points, sums) ==
    LET denom == RSub(RMul(RInt(sums.n), sums.sum_xx), RMul(sums.sum_x, sums.sum_x))
        slope == RDiv(RSub(RMul(RInt(sums.n), sums.sum_xy), RMul(sums.sum_x, sums.sum_y)),
                      denom)
    IN  IF denom[1] = 0 THEN NoFit("constant_hours")
        ELSE IF slope[1] >= 0 THEN NoFit("not_decaying")
        ELSE FitOfSlope(fit, log_points, sums, slope)

\* the loop body from "log_points = []" on
FitOfDecay(fit, decay_points, log_points) ==
    IF Len(decay_points) < MinDecayPoints THEN NoFit("few_decay_points")
    ELSE IF Len(log_points) < MinLogPoints THEN NoFit("few_log_points")
    ELSE FitOfSums([fit EXCEPT !.decay_points = Len(decay_points)],
                   log_points, LogSums(log_points))

\* the loop body from "baseline = min(baseline_readings)" on
FitOfBaseline(readings, peaks, p, min_rise_threshold, baseline) ==
    LET amplitude == peaks[p][3] - baseline
        decay_points == DecayPoints(readings, peaks, p, min_rise_threshold)
    IN  IF amplitude < min_rise_threshold THEN NoFit("small_amplitude")
        ELSE FitOfDecay([NoFit("") EXCEPT !.peak_time = peaks[p][2], !.peak_val = peaks[p][3],
                                          !.baseline = baseline, !.amplitude = amplitude],
                        decay_points, LogPoints(decay_points, baseline, amplitude))

\* the body of the for loop of _fit_exponential_decay for peaks[p] (p from 1):
\* status "fit" when a result is appended, else the reason the peak is skipped
FitPeak(readings, peaks, p, min_rise_threshold) ==
    LET baseline_readings == BaselineReadings(readings, peaks[p][1])
    IN  IF baseline_readings = <<>> THEN NoFit("no_baseline")
        ELSE FitOfBaseline(readings, peaks, p, min_rise_threshold,
                           MinOf({baseline_readings[i][2] : i \in Idx(baseline_readings)}))

\* _fit_exponential_decay: the fits of the peaks that are not skipped
_fit_exponential_decay(readings, peaks, min_rise_threshold) ==
    LET each     == [p \in Idx(peaks) |-> FitPeak(readings, peaks, p, min_rise_threshold)]
        fitted(f) == f.status = "fit"
    IN  SelectSeq(each, fitted)

\* sorted(xs) for a list of rationals
SortedRats(xs) ==
    LET before(j, i) == RLess(xs[j], xs[i]) \/ (xs[j] = xs[i] /\ j < i)
        placed == {<<Cardinality({j \in Idx(xs) : before(j, i)}) + 1, i>> : i \in Idx(xs)}
    IN  [q \in Idx(xs) |-> xs[(CHOOSE r \in placed : r[1] = q)[2]]]

\* sorted(xs) for a list of integers
SortedInts(xs) ==
    LET before(j, i) == xs[j] < xs[i] \/ (xs[j] = xs[i] /\ j < i)
        placed == {<<Cardinality({j \in Idx(xs) : before(j, i)}) + 1, i>> : i \in Idx(xs)}
    IN  [q \in Idx(xs) |-> xs[(CHOOSE r \in placed : r[1] = q)[2]]]

\* a variant of _summarise_decay below whose default half-life is the default
\* tau itself, against which the defaults of the summary are tried
SummariseDecayPlainHalfLife(fits, default_tau, baseline) ==
    [tau_hours_mean         |-> Num(RInt(default_tau), "1"),
     tau_hours_median       |-> Num(RInt(default_tau), "1"),
     half_life_hours_mean   |-> Num(RInt(default_tau), "1"),
     half_life_hours_median |-> Num(RInt(default_tau), "1"),
     baseline |-> baseline, n_peaks |-> Len(fits)]

\* _summarise_decay(fits, default_tau, baseline); the fits of one list carry
\* the same units, which the sums and the sorted lists keep
_summarise_decay(fits, default_tau, baseline) ==
    LET n         == Len(fits)
        taus      == [i \in 1..n |-> fits[i].tau_hours.coef]
        halflives == [i \in 1..n |-> fits[i].half_life_hours.coef]
        tau_unit  == fits[1].tau_hours.unit
        hl_unit   == fits[1].half_life_hours.unit
    IN  IF fits = <<>>
        THEN [tau_hours_mean         |-> Num(RInt(default_tau), "1"),
              tau_hours_median       |-> Num(RInt(default_tau), "1"),
              half_life_hours_mean   |-> Num(RInt(default_tau), "ln2"),
              half_life_hours_median |-> Num(RInt(default_tau), "ln2"),
              baseline |-> baseline, n_peaks |-> 0]
        ELSE [tau_hours_mean         |-> Num(RDiv(RSum(taus), RInt(n)), tau_unit),
              tau_hours_median       |-> Num(SortedRats(taus)[(n \div 2) + 1], tau_unit),
              half_life_hours_mean   |-> Num(RDiv(RSum(halflives), RInt(n)), hl_unit),
              half_life_hours_median |-> Num(SortedRats(halflives)[(n \div 2) + 1], hl_unit),
              baseline |-> baseline, n_peaks |-> n]

\* sorted_vals[len(sorted_vals) // 2] of a non-empty sorted list
MiddleOf(sorted_vals) == sorted_vals[(Len(sorted_vals) \div 2) + 1]

\* the baseline of calculate_farmoor_decay: the middle of the sorted June to
\* September values, 1.0 when there is none
SummerBaseline(readings) ==
    LET summer(r) == CivilDate(r[1].day).month \in {6, 7, 8, 9}
        summer_readings == SelectSeq(readings, summer)
    IN  IF summer_readings = <<>> THEN FarmoorFallbackBaseline
        ELSE MiddleOf(SortedInts([k \in Idx(summer_readings) |-> summer_readings[k][2]]))

\* peaks, fits and summary, the common end of the two calculate_*_decay
DecayOf(readings, min_peak, min_rise, default_tau, baseline) ==
    _summarise_decay(
        _fit_exponential_decay(readings,
                               _find_peaks(readings, min_peak, PeakWindow, MinGapDays),
                               min_rise),
        default_tau, baseline)

\* calculate_farmoor_decay(data)
FarmoorDecayOf(readings) ==
    DecayOf(readings, FarmoorMinPeak, FarmoorMinRise, FarmoorDefaultTau,
            SummerBaseline(readings))

calculate_farmoor_decay(data) == FarmoorDecayOf(_to_2h_readings(data.farmoor_history))

\* the readings list of calculate_flow_differential_decay from the two dicts:
\* for ts in sorted(godstow) with ts in osney, on the 2-hour grid
DifferentialReadings(godstow, osney) ==
    LET keep(ts) == ts \in DOMAIN osney /\ OnGrid(FromIsoFormat(ts))
        pair(ts) == <<FromIsoFormat(ts).dt, (godstow[ts] - osney[ts]) - FlowOffset>>
        kept     == SelectSeq(SortedAsc(DOMAIN godstow), keep)
    IN  SortByTime([k \in Idx(kept) |-> pair(kept[k])])

\* calculate_flow_differential_decay(data)
calculate_flow_differential_decay(data) ==
    DecayOf(DifferentialReadings(DictOfReadings(data.godstow_history),
                                 DictOfReadings(data.osney_history)),
            DiffMinPeak, DiffMinRise, DiffDefaultTau, 0)

(***************************************************************************)
(* scripts/update_prediction_model.py: main                                *)
(***************************************************************************)

\* fetch_historic_data(days_to_fetch=14, max_age_days=365): the model follows
\* DaysToFetch + 1 day partitions
DaysToFetch == 1
max_age_days == 365
\* ThreadPoolExecutor(max_workers=10)
max_workers == 10

\* min(xs) and max(xs) of a non-empty set of str
StrMin(S) == CHOOSE m \in S : \A c \in S : ~StrLess(c, m)
StrMax(S) == CHOOSE m \in S : \A c \in S : ~StrLess(m, c)

\* the dict 'historic' that main builds from raw_data ('created' is left out)
Historic(raw) ==
    LET all_timestamps ==
            UNION {{raw[k][i].timestamp : i \in Idx(raw[k])} : k \in KeySet}
    IN  [metadata |->
            [has_readings     |-> all_timestamps # {},
             earliest_reading |-> IF all_timestamps # {} THEN StrMin(all_timestamps) ELSE <<>>,
             latest_reading   |-> IF all_timestamps # {} THEN StrMax(all_timestamps) ELSE <<>>,
             reading_counts   |-> [k \in KeySet |-> Len(raw[k])]],
         godstow_history |-> raw["godstow"],
         osney_history   |-> raw["osney"],
         farmoor_history |-> raw["farmoor"]]

\* ln 2 to four places, used only where main rounds a number carrying a unit
Ln2 == <<6931, 10000>>

\* the value of a number with a unit
Value(x) ==
    IF x.unit = "ln2" THEN RMul(x.coef, Ln2)
    ELSE IF x.unit = "1/ln2" THEN RDiv(x.coef, Ln2)
    ELSE x.coef

\* a value kept in hundredths, as the float it stands for
Real(p) == RDiv(p, RInt(100))

\* the 'model' dict of main ('updated' is left out)
Model(hist, par, farmoor_dec, diff_dec) ==
    LET decay(dec, base) ==
            [model |-> "exponential",
             baseline |-> Round(base, 1),
             tau_hours_mean |-> Round(Value(dec.tau_hours_mean), 1),
             tau_hours_median |-> Round(Value(dec.tau_hours_median), 1),
             half_life_hours_mean |-> Round(Value(dec.half_life_hours_mean), 1),
             half_life_hours_median |-> Round(Value(dec.half_life_hours_median), 1),
             conservative_tau_hours |->
                 Round(RMul(Value(dec.tau_hours_median), <<4, 5>>), 1),
             n_peaks_analyzed |-> dec.n_peaks]
    IN  [data_range |-> [start |-> hist.metadata.earliest_reading,
                         end |-> hist.metadata.latest_reading,
                         samples |-> par.n_samples],
         regression |-> [slope |-> Round(par.slope, 6),
                         intercept |-> Round(Real(par.intercept), 4),
                         r_squared |-> Round(par.r_squared, 4),
                         correlation |-> par.correlation],
         thresholds |-> [green_amber_farmoor |-> Round(Real(par.thresholds.green_amber), 1),
                         amber_red_farmoor |-> Round(Real(par.thresholds.amber_red), 1),
                         green_amber_flow |-> GreenAmberFlow,
                         amber_red_flow |-> AmberRedFlow],
         farmoor_decay |-> decay(farmoor_dec, Real(RInt(farmoor_dec.baseline))),
         flow_differential_decay |-> decay(diff_dec, Real(RInt(diff_dec.baseline)))]

(***************************************************************************)
(* Inputs: the archive server and the file data/historic.json              *)
(***************************************************************************)

\* archives with this many grid readings per channel, up to SmallestBig + 1
SmallestBig == 97

Row(measure, dateTime, value) ==
    [measure |-> measure, dateTime |-> dateTime, value |-> value, short |-> FALSE]
ShortRow(measure, dateTime) ==
    [measure |-> measure, dateTime |-> dateTime, value |-> <<>>, short |-> TRUE]

Ok200(rows) == [kind |-> "ok", status |-> 200, rows |-> rows]
Failing(kind, status, rows) == [kind |-> kind, status |-> status, rows |-> rows]

\* value columns
V001 == Str(<<"0", ".", "0", "1">>)
V002 == Str(<<"0", ".", "0", "2">>)
V004 == Str(<<"0", ".", "0", "4">>)
V170 == Str(<<"1", ".", "7", "0">>)
V180 == Str(<<"1", ".", "8">>)
VSentinel == Str(<<"1", "|", "2">>)
VBad == Str(<<"x">>)

\* the three rows of day d at 00:00, on the line flow = 2 * farmoor + 0.01
GoodRows(d) ==
    <<Row(MEASURE_URLS.godstow, Stamp(d, 0, 0), V170),
      Row(MEASURE_URLS.osney, Stamp(d, 0, 0), IF d % 2 = 0 THEN V004 ELSE V002),
      Row(MEASURE_URLS.farmoor, Stamp(d, 0, 0), IF d % 2 = 0 THEN V001 ELSE V002)>>

\* a dateTime whose hour is not a number: 2025-12-31Txx:00:00Z
BadHourStamp(d) == StrfDate(d) \o Str(<<"T", "x", "x", ":", "0", "0", ":", "0", "0", "Z">>)

\* one godstow row of each malformed or filtered kind, for day d
OddRow(kind, d) ==
    CASE kind = "bad_hour"  -> Row(MEASURE_URLS.godstow, BadHourStamp(d), V180)
      [] kind = "no_T"      -> Row(MEASURE_URLS.godstow, Str(<<"x">>), V180)
      [] kind = "sentinel"  -> Row(MEASURE_URLS.godstow, Stamp(d, 2, 0), VSentinel)
      [] kind = "bad_value" -> Row(MEASURE_URLS.godstow, Stamp(d, 2, 0), VBad)
      [] kind = "short"     -> ShortRow(MEASURE_URLS.godstow, Stamp(d, 2, 0))
      [] kind = "odd_hour"  -> Row(MEASURE_URLS.godstow, Stamp(d, 1, 0), V180)
      [] kind = "quarter"   -> Row(MEASURE_URLS.godstow, Stamp(d, 2, 15), V180)
      [] kind = "other"     -> Row("another-measure", Stamp(d, 2, 0), V180)
      [] kind = "repeat"    -> Row(MEASURE_URLS.godstow, Stamp(d, 0, 0), V180)

OddKinds ==
    {"bad_hour", "no_T", "sentinel", "bad_value", "short", "odd_hour", "quarter",
     "other", "repeat"}

\* What the archive server holds for the days first .. last, as a function
\* from the date in the URL to the answer:
\*   good      every day answers with its three rows
\*   raise     the request of the first day raises (timeout), the others answer
\*   status    the last day answers 404, the others answer
\*   overlap   every day also carries a godstow row for the same instant, with
\*             a value of its own
\*   an odd kind: the first day carries that row between its good rows
ArchiveSetups == {"good", "raise", "status", "overlap"} \cup OddKinds

Archive(setup, first, last) ==
    LET answer(d) ==
            CASE setup = "good" -> Ok200(GoodRows(d))
              [] setup = "raise" ->
                    IF d = first THEN Failing("raise", 0, <<>>) ELSE Ok200(GoodRows(d))
              [] setup = "status" ->
                    IF d = last THEN Failing("ok", 404, GoodRows(d)) ELSE Ok200(GoodRows(d))
              [] setup = "overlap" ->
                    Ok200(GoodRows(d) \o
                          <<Row(MEASURE_URLS.godstow, Stamp(last, 4, 0),
                                IF d = first THEN V170 ELSE V180)>>)
              [] OTHER ->
                    IF d = first
                    THEN Ok200(<<GoodRows(d)[1], OddRow(setup, d), GoodRows(d)[2],
                                 GoodRows(d)[3]>>)
                    ELSE Ok200(GoodRows(d))
    IN  [date \in {StrfDate(d) : d \in first..last} |->
            answer(CHOOSE d \in first..last : StrfDate(d) = date)]

Reading(ts, v) == [timestamp |-> ts, value |-> v]

FileOf(state, g, o, f) ==
    [state |-> state, history |-> [godstow |-> g, osney |-> o, farmoor |-> f]]

\* a file written by an earlier run, with readings before, at and after the
\* second of the 365-day cutoff and one on a day that is fetched again
SmallFile ==
    FileOf("ok",
           <<Reading(Stamp(0, 0, 0), 170), Reading(Stamp(0, 2, 0), 171),
             Reading(Stamp(0, 4, 0), 172), Reading(Stamp(364, 0, 0), 173)>>,
           <<Reading(Stamp(0, 2, 0), 4), Reading(Stamp(0, 4, 0), 4)>>,
           <<Reading(Stamp(0, 4, 0), 1)>>)

\* the k-th instant of the 2-hour grid from 2025-01-02 on (k from 0)
GridStamp(k) == Stamp(1 + (k \div 12), 2 * (k % 12), 0)

\* a file with n grid readings per channel on the line flow = a * farmoor + b,
\* farmoor cycling through 0 .. period - 1 (all in hundredths)
LineFile(n, a, b, period) ==
    FileOf("ok",
           [k \in 1..n |-> Reading(GridStamp(k - 1), FlowOffset + 5 + a * ((k - 1) % period) + b)],
           [k \in 1..n |-> Reading(GridStamp(k - 1), 5)],
           [k \in 1..n |-> Reading(GridStamp(k - 1), (k - 1) % period)])

\* the files a run may find: none, an unreadable one, a small one, and big ones
\* on the line of GoodRows
HistoricFiles ==
    {FileOf("missing", <<>>, <<>>, <<>>), FileOf("corrupt", <<>>, <<>>, <<>>), SmallFile}
BigFiles == {LineFile(n, 2, 1, 3) : n \in SmallestBig..(SmallestBig + 1)}

\* like LineFile, but godstow has the instants 0 .. n, osney 0 .. n - 1 and
\* farmoor 1 .. n + 1: the instants of all three channels are 1 .. n - 1
UnpairedFile(n, a, b, period) ==
    FileOf("ok",
           [k \in 1..(n + 1) |-> Reading(GridStamp(k - 1), FlowOffset + 5 + a * ((k - 1) % period) + b)],
           [k \in 1..n |-> Reading(GridStamp(k - 1), 5)],
           [k \in 1..(n + 1) |-> Reading(GridStamp(k), k % period)])

\* The inputs of calculate_model_parameters that are followed: sample counts
\* around the limit of 100, on lines flow = a * farmoor + b with farmoor
\* taking 'period' values (all in hundredths, so that b = 100 is the intercept
\* 1.0); a = 0 makes the flow constant and period = 1 makes farmoor constant
SampleSlack == 1
MaxSlope == 2
Slopes == (-MaxSlope)..MaxSlope
Intercepts == {-1, 0, 100}
Periods == {1, 2, 3}
SampleCounts == (MinPaired - 1)..(MinPaired + SampleSlack)
RegressionFiles ==
    {LineFile(n, a, b, period) :
        n \in SampleCounts, a \in Slopes, b \in Intercepts, period \in Periods}
    \cup {UnpairedFile(n, 2, 1, 2) : n \in (MinPaired + 1)..(MinPaired + 1 + SampleSlack)}

(***************************************************************************)
(* State                                                                   *)
(***************************************************************************)

VARIABLES
    script,            \* the script that runs: "fetch_data" or "update_prediction_model"
    pc,                \* the place of the main thread
    now,               \* the last value read from the clock
    cutoff,            \* the cutoff string of the last trim
    \* scripts/fetch_data.py
    runs,              \* completed runs
    current_json,      \* the history list kept in data/current.json
    existing_history,  \* update_history: its argument
    api_readings,      \* update_history: what the API call returned
    history_dict,      \* update_history: the dict after the merge loop
    filtered,          \* update_history: its result
    \* scripts/update_prediction_model.py
    historic_file,     \* data/historic.json
    archive,           \* the archive server: date -> answer
    dates,             \* fetch_historic_data: the dates list
    loaded,            \* what load_existing_data returned
    all_readings,      \* fetch_historic_data: the shared map key -> dict
    futures,           \* per date: the state of its future and its result
    yielded,           \* the futures as_completed has yielded, in order
    pos,               \* the next upsert of the partition being merged
    writes,            \* every write to all_readings so far: <<thread, partition>>
    raw_data,          \* main: the result of fetch_historic_data
    historic,          \* main: the dict saved as data/historic.json
    params,            \* main: the result of calculate_model_parameters
    farmoor_decay,     \* main: the result of calculate_farmoor_decay
    diff_decay,        \* main: the result of calculate_flow_differential_decay
    model_file,        \* data/prediction_model.json
    error,             \* the exception that ended main, "" if none
    \* a function called on its own
    frame              \* its arguments, its locals and, once it returned, its result

fdVars == <<runs, current_json, existing_history, api_readings, history_dict, filtered>>
fetchVars == <<archive, dates, loaded, all_readings, futures, yielded, pos, writes>>
mainVars == <<raw_data, historic, params, farmoor_decay, diff_decay, model_file, error>>
vars == <<script, pc, now, cutoff, fdVars, historic_file, fetchVars, mainVars, frame>>

\* no function is called on its own
NoFrame == [fn |-> ""]

NoDecay == _summarise_decay(<<>>, 0, 0)
NoModel == [written |-> FALSE, content |-> Model(Historic(NoReadings), NoParams, NoDecay, NoDecay)]
NoFile == FileOf("missing", <<>>, <<>>, <<>>)

\* the values of the variables a script has not yet assigned
Blank ==
    /\ frame = NoFrame
    /\ cutoff = <<>>
    /\ runs = 0 /\ current_json = <<>> /\ existing_history = <<>>
    /\ api_readings = <<>> /\ history_dict = EmptyDict /\ filtered = <<>>
    /\ dates = <<>> /\ loaded = [k \in KeySet |-> EmptyDict]
    /\ all_readings = [k \in KeySet |-> EmptyDict]
    /\ futures = <<>> /\ yielded = <<>> /\ pos = 0 /\ writes = <<>>
    /\ raw_data = NoReadings /\ historic = Historic(NoReadings)
    /\ params = NoParams /\ farmoor_decay = NoDecay /\ diff_decay = NoDecay
    /\ model_file = NoModel /\ error = ""

\* fetch_data.py starts with no data/current.json
InitFetchData ==
    /\ script = "fetch_data" /\ pc = "update_history"
    /\ now \in Nows
    /\ historic_file = NoFile /\ archive = <<>>
    /\ Blank

\* update_prediction_model.py starts with some data/historic.json and some
\* archive server
InitUpdateModel ==
    /\ script = "update_prediction_model" /\ pc = "load"
    /\ now \in Nows
    /\ \/ /\ historic_file \in HistoricFiles
          /\ \E setup \in ArchiveSetups :
                archive = Archive(setup, now.day - 1 - DaysToFetch, now.day - 1)
       \/ /\ historic_file \in BigFiles
          /\ now = At(365, 2, 0, 0, 0)
          /\ \E setup \in {"good", "raise"} :
                archive = Archive(setup, now.day - 1 - DaysToFetch, now.day - 1)
    /\ Blank

Init == InitFetchData \/ InitUpdateModel

\* calculate_model_parameters on its own, called with a 'historic' dict
InitRegression ==
    /\ script = "calculate_model_parameters" /\ pc = "regression"
    /\ now = At(365, 2, 0, 0, 0)
    /\ historic_file = NoFile /\ archive = <<>>
    /\ cutoff = <<>>
    /\ runs = 0 /\ current_json = <<>> /\ existing_history = <<>>
    /\ api_readings = <<>> /\ history_dict = EmptyDict /\ filtered = <<>>
    /\ dates = <<>> /\ loaded = [k \in KeySet |-> EmptyDict]
    /\ all_readings = [k \in KeySet |-> EmptyDict]
    /\ futures = <<>> /\ yielded = <<>> /\ pos = 0 /\ writes = <<>>
    /\ raw_data = NoReadings
    /\ \E file \in RegressionFiles : historic = Historic(file.history)
    /\ params = NoParams /\ farmoor_decay = NoDecay /\ diff_decay = NoDecay
    /\ model_file = NoModel /\ error = ""
    /\ frame = NoFrame

(***************************************************************************)
(* scripts/fetch_data.py: one run's update_history                         *)
(***************************************************************************)

\* update_history(measure_id, existing_history) on the history of
\* data/current.json, the result being written back by main
UpdateHistory ==
    /\ script = "fetch_data" /\ pc = "update_history"
    /\ runs < MaxRuns
    /\ \E t \in Nows, resp \in ApiResponses :
        /\ ~DtLess(t, now)
        /\ now' = t
        /\ cutoff' = CutoffString(t, days)
        /\ existing_history' = current_json
        /\ api_readings' = fetch_all_readings_for_period(resp)
        /\ history_dict' = MergeHistory(existing_history', api_readings')
        /\ filtered' = TrimNewestFirst(history_dict', cutoff')
        /\ current_json' = filtered'
    /\ runs' = runs + 1
    /\ UNCHANGED <<script, frame, pc, historic_file, fetchVars, mainVars>>

(***************************************************************************)
(* scripts/update_prediction_model.py: fetch_historic_data                 *)
(***************************************************************************)

NoResult == [ok |-> FALSE, readings |-> NoReadings]

\* the futures in a given state
InState(st) == {i \in Idx(futures) : futures[i].state = st}

\* the members of a sequence
Range(q) == {q[i] : i \in Idx(q)}

\* the partition as_completed yielded last
Current == yielded[Len(yielded)]

\* lines 96-108: load the file and list the dates
LoadExisting ==
    /\ script = "update_prediction_model" /\ pc = "load"
    /\ loaded' = load_existing_data(historic_file)
    /\ all_readings' = loaded'
    /\ dates' = FetchDates(now, DaysToFetch)
    /\ futures' = [i \in Idx(dates') |-> [state |-> "new", result |-> NoResult]]
    /\ pc' = "submit"
    /\ UNCHANGED <<script, frame, now, cutoff, fdVars, historic_file, archive, yielded, pos,
                   writes, mainVars>>

\* line 114: executor.submit(fetch_archive_day, date) for the next date
Submit ==
    /\ pc = "submit"
    /\ LET i == MinOf(InState("new"))
       IN  /\ futures' = [futures EXCEPT ![i].state = "queued"]
           /\ pc' = IF InState("new") = {i} THEN "collect" ELSE "submit"
    /\ UNCHANGED <<script, frame, now, cutoff, fdVars, historic_file, archive, dates, loaded,
                   all_readings, yielded, pos, writes, mainVars>>

\* a free worker thread takes the oldest queued call
StartFetch(i) ==
    /\ futures[i].state = "queued"
    /\ i = MinOf(InState("queued"))
    /\ Cardinality(InState("running")) < max_workers
    /\ futures' = [futures EXCEPT ![i].state = "running"]
    /\ UNCHANGED <<script, frame, pc, now, cutoff, fdVars, historic_file, archive, dates, loaded,
                   all_readings, yielded, pos, writes, mainVars>>

\* the worker thread's fetch_archive_day(date) returns; it touches nothing but
\* its future
FinishFetch(i) ==
    /\ futures[i].state = "running"
    /\ futures' = [futures EXCEPT
                      ![i] = [state |-> "done",
                              result |-> fetch_archive_day(archive[dates[i]])]]
    /\ UNCHANGED <<script, frame, pc, now, cutoff, fdVars, historic_file, archive, dates, loaded,
                   all_readings, yielded, pos, writes, mainVars>>

\* lines 116-118: as_completed yields a finished future; with no result, or no
\* reading in it, the loops of lines 119-121 do nothing
NextCompleted(i) ==
    /\ pc = "collect"
    /\ futures[i].state = "done"
    /\ i \notin Range(yielded)
    /\ yielded' = Append(yielded, i)
    /\ IF futures[i].result.ok /\ FlatReadings(futures[i].result.readings) # <<>>
       THEN pc' = "merge" /\ pos' = 1
       ELSE pc' = "collect" /\ pos' = 0
    /\ UNCHANGED <<script, frame, now, cutoff, fdVars, historic_file, archive, dates, loaded,
                   all_readings, futures, writes, mainVars>>

\* line 121: one all_readings[key][r['timestamp']] = r['value']
MergeStep ==
    /\ pc = "merge"
    /\ LET flat == FlatReadings(futures[Current].result.readings)
       IN  /\ all_readings' = UpsertKey(all_readings, flat[pos][1], flat[pos][2])
           /\ writes' = Append(writes, <<"main", Current>>)
           /\ IF pos = Len(flat)
              THEN pc' = "collect" /\ pos' = 0
              ELSE pc' = "merge" /\ pos' = pos + 1
    /\ UNCHANGED <<script, frame, now, cutoff, fdVars, historic_file, archive, dates, loaded,
                   futures, yielded, mainVars>>

\* a variant of TrimAndReturn below that does not wait for the last future,
\* against which the order of the fetches and the trim is tried
TrimAndReturnEarly ==
    /\ pc = "collect"
    /\ yielded # <<>>
    /\ \E t \in Nows :
        /\ ~DtLess(t, now)
        /\ now' = t
        /\ cutoff' = CutoffString(t, max_age_days)
    /\ raw_data' = [k \in KeySet |-> TrimOldestFirst(all_readings[k], cutoff')]
    /\ pc' = "save_historic"
    /\ UNCHANGED <<script, frame, fdVars, historic_file, fetchVars, historic, params,
                   farmoor_decay, diff_decay, model_file, error>>

\* lines 123-135: every future has been yielded; read the clock, trim, return
TrimAndReturn ==
    /\ pc = "collect"
    /\ Range(yielded) = Idx(futures)
    /\ \E t \in Nows :
        /\ ~DtLess(t, now)
        /\ now' = t
        /\ cutoff' = CutoffString(t, max_age_days)
    /\ raw_data' = [k \in KeySet |-> TrimOldestFirst(all_readings[k], cutoff')]
    /\ pc' = "save_historic"
    /\ UNCHANGED <<script, frame, fdVars, historic_file, fetchVars, historic, params,
                   farmoor_decay, diff_decay, model_file, error>>

(***************************************************************************)
(* scripts/update_prediction_model.py: main after fetch_historic_data      *)
(***************************************************************************)

\* lines 418-443: build 'historic' and write data/historic.json; the write
\* raises when the file cannot be written
SaveHistoric ==
    /\ pc = "save_historic"
    /\ historic' = Historic(raw_data)
    /\ \E writable \in BOOLEAN :
        IF writable
        THEN /\ historic_file' = FileOf("ok", raw_data["godstow"], raw_data["osney"],
                                        raw_data["farmoor"])
             /\ pc' = "regression"
             /\ error' = error
        ELSE /\ historic_file' = historic_file
             /\ pc' = "crashed"
             /\ error' = "OSError"
    /\ UNCHANGED <<script, frame, now, cutoff, fdVars, fetchVars, raw_data, params,
                   farmoor_decay, diff_decay, model_file>>

\* line 452: params = calculate_model_parameters(historic); an exception of
\* the call is not caught and ends main
CalcParams ==
    /\ pc = "regression"
    /\ LET r == calculate_model_parameters(historic)
       IN  IF r.raised = ""
           THEN params' = r.params /\ pc' = "farmoor_decay" /\ error' = error
           ELSE params' = params /\ pc' = "crashed" /\ error' = r.raised
    /\ UNCHANGED <<script, frame, now, cutoff, fdVars, historic_file, fetchVars, raw_data,
                   historic, farmoor_decay, diff_decay, model_file>>

\* line 462
CalcFarmoorDecay ==
    /\ pc = "farmoor_decay"
    /\ farmoor_decay' = calculate_farmoor_decay(historic)
    /\ pc' = "diff_decay"
    /\ UNCHANGED <<script, frame, now, cutoff, fdVars, historic_file, fetchVars, raw_data,
                   historic, params, diff_decay, model_file, error>>

\* line 471
CalcDiffDecay ==
    /\ pc = "diff_decay"
    /\ diff_decay' = calculate_flow_differential_decay(historic)
    /\ pc' = "save_model"
    /\ UNCHANGED <<script, frame, now, cutoff, fdVars, historic_file, fetchVars, raw_data,
                   historic, params, farmoor_decay, model_file, error>>

\* lines 480-522: build 'model' and write data/prediction_model.json
SaveModel ==
    /\ pc = "save_model"
    /\ \E writable \in BOOLEAN :
        IF writable
        THEN /\ model_file' = [written |-> TRUE,
                               content |-> Model(historic, params, farmoor_decay, diff_decay)]
             /\ pc' = "done"
             /\ error' = error
        ELSE /\ model_file' = model_file
             /\ pc' = "crashed"
             /\ error' = "OSError"
    /\ UNCHANGED <<script, frame, now, cutoff, fdVars, historic_file, fetchVars, raw_data,
                   historic, params, farmoor_decay, diff_decay>>

Next ==
    \/ UpdateHistory
    \/ LoadExisting
    \/ Submit
    \/ \E i \in Idx(futures) : StartFetch(i)
    \/ \E i \in Idx(futures) : FinishFetch(i)
    \/ \E i \in Idx(futures) : NextCompleted(i)
    \/ MergeStep
    \/ TrimAndReturn
    \/ SaveHistoric
    \/ CalcParams
    \/ CalcFarmoorDecay
    \/ CalcDiffDecay
    \/ SaveModel

Spec == Init /\ [][Next]_vars

NextRegression == CalcParams

SpecReg == InitRegression /\ [][NextRegression]_vars

(***************************************************************************)
(* _find_peaks called on its own, one iteration of its loop at a time      *)
(***************************************************************************)

\* the series tried: every list of up to MaxSeries values of PeakValues and
\* the series [0, 1, 5, 9, 5, 1, 0], the readings Spacings hours apart
MaxSeries == 5
MaxWindow == 2
PeakValues == {0, 5, 9}
Spacings == {0, 2, 12}
MinPeaks == {0, 5}
MinGaps == {0, 1}
ExampleSeries == <<0, 1, 5, 9, 5, 1, 0>>

SeriesValues ==
    {ExampleSeries} \cup UNION {[1..n -> PeakValues] : n \in 0..MaxSeries}

\* the instant h hours after 2025-01-01T00:00:00Z
AtHour(h) == At(h \div 24, h % 24, 0, 0, 0)

\* the readings list for a list of values, the first at hour 0
SeriesOf(vals, spacing) == [k \in Idx(vals) |-> <<AtHour((k - 1) * spacing), vals[k]>>]

\* the variables of the scripts, which a function called on its own leaves alone
scriptVars == <<now, cutoff, fdVars, historic_file, fetchVars, mainVars>>

\* no script runs
NoScript ==
    /\ now = At(0, 0, 0, 0, 0)
    /\ historic_file = NoFile /\ archive = <<>>
    /\ cutoff = <<>>
    /\ runs = 0 /\ current_json = <<>> /\ existing_history = <<>>
    /\ api_readings = <<>> /\ history_dict = EmptyDict /\ filtered = <<>>
    /\ dates = <<>> /\ loaded = [k \in KeySet |-> EmptyDict]
    /\ all_readings = [k \in KeySet |-> EmptyDict]
    /\ futures = <<>> /\ yielded = <<>> /\ pos = 0 /\ writes = <<>>
    /\ raw_data = NoReadings /\ historic = Historic(NoReadings)
    /\ params = NoParams /\ farmoor_decay = NoDecay /\ diff_decay = NoDecay
    /\ model_file = NoModel /\ error = ""

\* _find_peaks(readings, min_peak, window, min_gap) before its loop
InitFindPeaks ==
    /\ script = "_find_peaks" /\ pc = "scan"
    /\ NoScript
    /\ \E vals \in SeriesValues, spacing \in Spacings, min_peak \in MinPeaks,
          window \in 0..MaxWindow, min_gap \in MinGaps :
            frame = [fn |-> "_find_peaks",
                     readings |-> SeriesOf(vals, spacing), min_peak |-> min_peak,
                     window |-> window, min_gap |-> min_gap,
                     i |-> window, peaks |-> <<>>, returned |-> <<>>]

\* lines 301-310: the loop body for the next i of range(window, len - window)
FindPeaksStep ==
    /\ script = "_find_peaks" /\ pc = "scan"
    /\ frame.i < Len(frame.readings) - frame.window
    /\ frame' = [frame EXCEPT
                    !.peaks = PeakStep(frame.readings, frame.peaks, frame.i, frame.min_peak,
                                       frame.window, frame.min_gap),
                    !.i = frame.i + 1]
    /\ UNCHANGED <<script, pc, scriptVars>>

\* line 311: return peaks
FindPeaksReturn ==
    /\ script = "_find_peaks" /\ pc = "scan"
    /\ frame.i >= Len(frame.readings) - frame.window
    /\ frame' = [frame EXCEPT !.returned = frame.peaks]
    /\ pc' = "done"
    /\ UNCHANGED <<script, scriptVars>>

NextFindPeaks == FindPeaksStep \/ FindPeaksReturn

SpecPeaks == InitFindPeaks /\ [][NextFindPeaks]_vars

(***************************************************************************)
(* _fit_exponential_decay called on its own, one peak at a time            *)
(***************************************************************************)

\* The series tried are flood events on the 2-hour grid: 'lead' readings, a
\* peak FloodRise above the base, and a tail given by the exponents k of its
\* readings base + FloodRise / 2^k (NoRise for a reading at the base).  The
\* values are in hundredths for the flow differential (scale 1) and in units
\* for Farmoor (scale 100).
FloodRise == 64
NoRise == 7
LongestLead == 13
Leads == 6..LongestLead \cup {20, 90}
Scales == {1, 100}
QuietReadings == 40

\* the rise above the base of a tail reading with exponent k
RiseOf(k, scale) == IF k >= NoRise THEN 0 ELSE (FloodRise \div Pow2(k)) * scale

Quiet(n) == [k \in 1..n |-> NoRise]

Tails ==
    [clean  |-> <<1, 2, 3, 4, 5, 6, 7, 7>>,
     slow   |-> <<1, 1, 2, 2, 3, 3, 4, 4>>,
     flat   |-> <<0, 0, 0, 0, 0, 0, 0, 0>>,
     drop   |-> <<7, 7, 7, 7, 7, 7, 7, 7>>,
     noisy  |-> <<6, 1, 6, 1, 6, 1, 6, 1>>,
     steep  |-> <<3, 4, 5, 6>> \o Quiet(8),
     rerise |-> <<1, 2, 3, 4, 5, 6, 6, 5, 3, 2, 1, 2, 3, 4, 5, 6, 7, 7>>,
     twin   |-> <<1, 2, 3, 4, 5, 6>> \o Quiet(QuietReadings) \o <<0, 1, 2, 3, 4, 5, 6, 7>>,
     mixed  |-> <<1, 2, 3, 4, 5, 6>> \o Quiet(QuietReadings) \o <<0>> \o Quiet(8),
     long   |-> <<1, 2, 3, 4, 5, 6>> \o Quiet(MaxLookahead)]

\* the values of an event: the lead at lead_val, the peak, the tail
EventValues(lead, lead_val, base, tail, scale) ==
    [k \in 1..lead |-> lead_val * scale]
        \o <<(base + FloodRise) * scale>>
        \o [k \in Idx(tail) |-> base * scale + RiseOf(tail[k], scale)]

\* the readings list of a list of values on the 2-hour grid, the readings
\* from the 0-based index 'from' on being 'late' hours late
GridSeries(vals, from, late) ==
    [k \in Idx(vals) |-> <<AtHour(2 * (k - 1) + (IF k - 1 >= from THEN late ELSE 0)), vals[k]>>]

\* a call: the readings, the window given to _find_peaks and the scale
FitCall(readings, window, scale) == [readings |-> readings, window |-> window, scale |-> scale]

FitCalls ==
    \* events over a base equal to the lead, with and without missing readings
    {FitCall(GridSeries(EventValues(lead, base, base, Tails[t], scale), lead + 3, late),
             PeakWindow, scale) :
        lead \in Leads, base \in {0, 10}, scale \in Scales, late \in {0, 24},
        t \in {"clean", "slow", "flat", "drop", "noisy", "rerise"}}
    \cup
    \* events after a lead above the level the tail falls to
    {FitCall(GridSeries(EventValues(lead, 10, 0, Tails[t], scale), 0, 0), PeakWindow, scale) :
        lead \in Leads, scale \in Scales, t \in {"steep", "drop"}}
    \cup
    \* two events, and one event followed by more than MaxLookahead readings
    {FitCall(GridSeries(EventValues(lead, 0, 0, Tails[t], scale), 0, 0), PeakWindow, scale) :
        lead \in {6, LongestLead}, scale \in Scales, t \in {"twin", "mixed", "long"}}
    \cup
    \* a series that starts with its peak, no window being asked of the peaks
    {FitCall(GridSeries(EventValues(0, 0, 0, Tails[t], scale), 0, 0), 0, scale) :
        scale \in Scales, t \in {"clean", "steep", "long"}}

\* the locals of the loop body before the first peak
NoLocals == [baseline_readings |-> <<>>, decay_points |-> <<>>, outcome |-> NoFit("")]

\* _fit_exponential_decay(readings, peaks, min_rise_threshold) before its loop,
\* the peaks being those of _find_peaks as in the two calculate_*_decay
InitFit ==
    /\ script = "_fit_exponential_decay" /\ pc = "peaks"
    /\ NoScript
    /\ \E c \in FitCalls :
          frame = [fn |-> "_fit_exponential_decay",
                   readings |-> c.readings,
                   peaks |-> _find_peaks(c.readings,
                                         IF c.scale = 1 THEN DiffMinPeak ELSE FarmoorMinPeak,
                                         c.window, MinGapDays),
                   min_rise_threshold |-> IF c.scale = 1 THEN DiffMinRise ELSE FarmoorMinRise,
                   p_idx |-> 0, locals |-> NoLocals, results |-> <<>>, returned |-> <<>>]

\* the locals of the loop body for peaks[p] once it has run
LocalsOf(readings, peaks, p, min_rise_threshold) ==
    LET outcome == FitPeak(readings, peaks, p, min_rise_threshold)
    IN  [baseline_readings |-> BaselineReadings(readings, peaks[p][1]),
         decay_points |-> IF outcome.status \in {"no_baseline", "small_amplitude"} THEN <<>>
                          ELSE DecayPoints(readings, peaks, p, min_rise_threshold),
         outcome |-> outcome]

\* lines 215-292: the loop body for the next peak
FitStep ==
    /\ script = "_fit_exponential_decay" /\ pc = "peaks"
    /\ frame.p_idx < Len(frame.peaks)
    /\ LET locals == LocalsOf(frame.readings, frame.peaks, frame.p_idx + 1,
                              frame.min_rise_threshold)
       IN  frame' = [frame EXCEPT
                        !.locals = locals,
                        !.results = IF locals.outcome.status = "fit"
                                    THEN Append(frame.results, locals.outcome)
                                    ELSE frame.results,
                        !.p_idx = frame.p_idx + 1]
    /\ UNCHANGED <<script, pc, scriptVars>>

\* line 294: return results
FitReturn ==
    /\ script = "_fit_exponential_decay" /\ pc = "peaks"
    /\ frame.p_idx >= Len(frame.peaks)
    /\ frame' = [frame EXCEPT !.returned = frame.results]
    /\ pc' = "done"
    /\ UNCHANGED <<script, scriptVars>>

NextFit == FitStep \/ FitReturn

SpecFit == InitFit /\ [][NextFit]_vars

(***************************************************************************)
(* _summarise_decay called on its own                                      *)
(***************************************************************************)

MaxFits == 4
TauValues == {10, 20, 40}

\* a fit with tau_hours = tau and half_life_hours = tau * math.log(2), the two
\* keys of a fit that _summarise_decay reads
FitOfTau(tau) ==
    [status |-> "fit", tau_hours |-> Num(RInt(tau), "1"),
     half_life_hours |-> Num(RInt(tau), "ln2")]

\* the lists of at most n members of a set
RECURSIVE ListsUpTo(_, _)
ListsUpTo(S, n) ==
    IF n = 0 THEN {<<>>}
    ELSE LET shorter == ListsUpTo(S, n - 1)
         IN  shorter \cup {Append(l, x) : l \in {m \in shorter : Len(m) = n - 1}, x \in S}

FitLists == {[i \in Idx(taus) |-> FitOfTau(taus[i])] : taus \in ListsUpTo(TauValues, MaxFits)}

\* _summarise_decay(fits, default_tau, baseline) before its first statement
InitSummary ==
    /\ script = "_summarise_decay" /\ pc = "call"
    /\ NoScript
    /\ \E fits \in FitLists, default_tau \in {FarmoorDefaultTau, DiffDefaultTau},
          baseline \in {0, FarmoorFallbackBaseline} :
          frame = [fn |-> "_summarise_decay", fits |-> fits, default_tau |-> default_tau,
                   baseline |-> baseline, returned |-> NoDecay]

\* lines 332-354: the whole function
SummariseReturn ==
    /\ script = "_summarise_decay" /\ pc = "call"
    /\ frame' = [frame EXCEPT
                    !.returned = _summarise_decay(frame.fits, frame.default_tau,
                                                  frame.baseline)]
    /\ pc' = "done"
    /\ UNCHANGED <<script, scriptVars>>

NextSummary == SummariseReturn

SpecSummary == InitSummary /\ [][NextSummary]_vars


(***************************************************************************)
(* calculate_farmoor_decay and calculate_flow_differential_decay called on *)
(* their own                                                               *)
(***************************************************************************)

EventLead == 13
QuietLength == 20
OsneyFlow == 500
FirstOfJune == 151

\* the values of a channel: none, no rise, and events with one tail each
ChannelValues(shape, base, scale) ==
    IF shape = "empty" THEN <<>>
    ELSE IF shape = "quiet" THEN [k \in 1..QuietLength |-> base * scale]
    ELSE EventValues(EventLead, base, base, Tails[shape], scale)

ChannelShapes == {"empty", "quiet", "drop", "noisy", "slow", "clean", "mixed"}

\* a history list of 2-hourly readings from 00:00 of a day on
HistoryOf(day, vals) ==
    [k \in Idx(vals) |-> Reading(Stamp(day + ((k - 1) \div 12), 2 * ((k - 1) % 12), 0), vals[k])]

\* the dict main passes: farmoor with the given values, godstow and osney
\* with the given differential where osney has readings
DecayData(day, farmoor_vals, diff_vals, with_osney) ==
    Historic([farmoor |-> HistoryOf(day, farmoor_vals),
              godstow |-> HistoryOf(day, [k \in Idx(diff_vals) |->
                                             diff_vals[k] + FlowOffset + OsneyFlow]),
              osney   |-> IF with_osney
                          THEN HistoryOf(day, [k \in Idx(diff_vals) |-> OsneyFlow])
                          ELSE <<>>])

\* the three channels see the same weather
DecayCalls ==
    {DecayData(day, ChannelValues(shape, base, 100), ChannelValues(shape, base, 1), with_osney) :
        day \in {0, FirstOfJune}, shape \in ChannelShapes, base \in {0, 10},
        with_osney \in BOOLEAN}

DecayFunctions == {"calculate_farmoor_decay", "calculate_flow_differential_decay"}

InitDecay ==
    /\ script \in DecayFunctions /\ pc = "call"
    /\ NoScript
    /\ \E data \in DecayCalls : frame = [fn |-> script, data |-> data, returned |-> NoDecay]

\* lines 357-375: the whole function
FarmoorDecayReturn ==
    /\ script = "calculate_farmoor_decay" /\ pc = "call"
    /\ frame' = [frame EXCEPT !.returned = calculate_farmoor_decay(frame.data)]
    /\ pc' = "done"
    /\ UNCHANGED <<script, scriptVars>>

\* lines 378-404: the whole function
DiffDecayReturn ==
    /\ script = "calculate_flow_differential_decay" /\ pc = "call"
    /\ frame' = [frame EXCEPT !.returned = calculate_flow_differential_decay(frame.data)]
    /\ pc' = "done"
    /\ UNCHANGED <<script, scriptVars>>

NextDecay == FarmoorDecayReturn \/ DiffDecayReturn

SpecDecay == InitDecay /\ [][NextDecay]_vars


(***************************************************************************)
(* _to_2h_readings called on its own                                       *)
(***************************************************************************)

MaxHistory == 3

\* a reading without the key 'value'
Valueless(ts) == [timestamp |-> ts]

\* a timestamp with seconds, as Stamp writes it without
StampWithSeconds(d, h, mi) ==
    Replace(Stamp(d, h, mi), Str(<<":", "0", "0", "Z">>), Str(<<":", "3", "0", "Z">>))

\* readings on and off the 2-hour grid, one with the value 0, one 30 seconds
\* past the grid point, one without a value, one whose timestamp is no date
HistoryItems ==
    {Reading(Stamp(0, 2, 0), 10), Reading(Stamp(0, 0, 0), 0), Reading(Stamp(1, 22, 0), 30),
     Reading(StampWithSeconds(0, 2, 0), 40),
     Reading(Stamp(0, 3, 0), 50), Reading(Stamp(0, 2, 15), 60),
     Valueless(Stamp(0, 4, 0)), Reading(Str(<<"x">>), 70)}

\* _to_2h_readings(history_list) before its first statement
InitGrid ==
    /\ script = "_to_2h_readings" /\ pc = "call"
    /\ NoScript
    /\ \E history_list \in ListsUpTo(HistoryItems, MaxHistory) :
          frame = [fn |-> "_to_2h_readings", history_list |-> history_list, returned |-> <<>>]

\* lines 316-327: the whole function
GridReturn ==
    /\ script = "_to_2h_readings" /\ pc = "call"
    /\ frame' = [frame EXCEPT !.returned = _to_2h_readings(frame.history_list)]
    /\ pc' = "done"
    /\ UNCHANGED <<script, scriptVars>>

NextGrid == GridReturn

SpecGrid == InitGrid /\ [][NextGrid]_vars


(***************************************************************************)
(* scripts/fetch_data.py: calculate_percentile, called on its own          *)
(***************************************************************************)

MaxValues == 4
PercentileValues == {10, 20, 30, 40}
Percentiles == {0, 10, 25, 50, 90, 100}

\* the value a call returns; None where is_none holds
Returned(val) == [is_none |-> FALSE, val |-> val]
ReturnedNone == [is_none |-> TRUE, val |-> <<0, 1>>]

\* a variant of calculate_percentile below that returns sorted_values[lower],
\* against which the interpolation is tried
PercentileOfLower(values, percentile) ==
    IF values = <<>> THEN ReturnedNone
    ELSE Returned(RInt(SortedInts(values)[((percentile * (Len(values) - 1)) \div 100) + 1]))

\* calculate_percentile(values, percentile), lines 173-185; int(index) is the
\* floor of an index that is not negative
calculate_percentile(values, percentile) ==
    IF values = <<>> THEN ReturnedNone
    ELSE LET sorted_values == SortedInts(values)
             index  == Rat(percentile * (Len(sorted_values) - 1), 100)
             lower  == index[1] \div index[2]
             upper  == lower + 1
             weight == RSub(index, RInt(lower))
         IN  IF upper >= Len(sorted_values)
             THEN Returned(RInt(sorted_values[Len(sorted_values)]))
             ELSE Returned(RAdd(RMul(RInt(sorted_values[lower + 1]), RSub(RInt(1), weight)),
                                RMul(RInt(sorted_values[upper + 1]), weight)))

\* calculate_percentile(values, percentile) before its first statement;
\* 'values' is the caller's list
InitPercentile ==
    /\ script = "calculate_percentile" /\ pc = "call"
    /\ NoScript
    /\ \E values \in ListsUpTo(PercentileValues, MaxValues), percentile \in Percentiles :
          frame = [fn |-> "calculate_percentile", values |-> values,
                   percentile |-> percentile, sorted_values |-> <<>>,
                   returned |-> ReturnedNone]

\* lines 174-185: the whole function; sorted(values) makes a new list and
\* nothing is assigned to 'values'
PercentileReturn ==
    /\ script = "calculate_percentile" /\ pc = "call"
    /\ frame' = [frame EXCEPT
                    !.sorted_values = IF frame.values = <<>> THEN <<>>
                                      ELSE SortedInts(frame.values),
                    !.returned = calculate_percentile(frame.values, frame.percentile)]
    /\ pc' = "done"
    /\ UNCHANGED <<script, scriptVars>>

NextPercentile == PercentileReturn

SpecPercentile == InitPercentile /\ [][NextPercentile]_vars


(***************************************************************************)
(* Properties                                                              *)
(***************************************************************************)

\* the timestamps of a list of readings, and the value of the last reading
\* of the list with a given timestamp
Timestamps(readings) == {readings[i].timestamp : i \in Idx(readings)}
LastValue(readings, ts) ==
    LET at == {i \in Idx(readings) : readings[i].timestamp = ts}
    IN  readings[CHOOSE i \in at : \A j \in at : j <= i].value

UpdateModel == script = "update_prediction_model"

\* update_history has run at least once
Updated == script = "fetch_data" /\ runs > 0

\* the main thread is between two partitions (or before the first)
BetweenPartitions == UpdateModel /\ pc = "collect"

\* fetch_historic_data has returned
Fetched == UpdateModel /\ pc \notin {"load", "submit", "collect", "merge"}

\* what partition i brought for channel k; nothing when its fetch gave None
PartReadings(i, k) ==
    IF futures[i].state = "done" /\ futures[i].result.ok
    THEN futures[i].result.readings[k]
    ELSE <<>>

\* the position in 'yielded' of the last partition holding ts for channel k
\* (0 when none does)
LastHolder(k, ts) ==
    LET holders == {j \in Idx(yielded) : ts \in Timestamps(PartReadings(yielded[j], k))}
    IN  IF holders = {} THEN 0 ELSE CHOOSE j \in holders : \A h \in holders : h <= j

\* the value ts must have for channel k once the yielded partitions are merged
MergedValue(k, ts) ==
    IF LastHolder(k, ts) = 0 THEN loaded[k][ts]
    ELSE LastValue(PartReadings(yielded[LastHolder(k, ts)], k), ts)

C2_MergeIdempotent ==
    /\ Updated =>
        MergeHistory(ReadingsOf(history_dict, SortedAsc(DOMAIN history_dict)), api_readings)
            = history_dict
    /\ (BetweenPartitions /\ yielded # <<>>) =>
        ApplyPartition(all_readings, [k \in KeySet |-> PartReadings(Current, k)])
            = all_readings

\* C2 witness: a partition with readings has just been merged into a loaded
\* archive that already held one of its timestamps
C2_Witness ==
    /\ BetweenPartitions /\ yielded # <<>>
    /\ \E k \in KeySet :
          Timestamps(PartReadings(Current, k)) \cap DOMAIN loaded[k] # {}

\* the partitions' timestamp sets are pairwise disjoint, channel by channel
DisjointPartitions ==
    \A i, j \in Idx(futures) : \A k \in KeySet :
        i # j => Timestamps(PartReadings(i, k)) \cap Timestamps(PartReadings(j, k)) = {}

\* the partitions i .. Len(futures) applied in the order of the dates
RECURSIVE InDateOrder(_, _)
InDateOrder(all, i) ==
    IF i > Len(futures) THEN all
    ELSE InDateOrder(ApplyPartition(all, [k \in KeySet |-> PartReadings(i, k)]), i + 1)

\* C3: completion order does not matter for disjoint partitions, and the
\* partitions are applied one at a time by the main thread.  Once
\* fetch_historic_data has returned with pairwise disjoint partitions,
\* all_readings is what applying the partitions in the order of the dates
\* gives, whatever the order as_completed yielded them in; and at every moment
\* all writes to all_readings so far were made by the main thread, those of one
\* partition next to each other.
C3_OrderIndependent ==
    /\ (Fetched /\ DisjointPartitions) => all_readings = InDateOrder(loaded, 1)
    /\ \A w \in Idx(writes) : writes[w][1] = "main"
    /\ \A a, b, c \in Idx(writes) :
          (a < b /\ b < c /\ writes[a][2] = writes[c][2]) => writes[b][2] = writes[a][2]

\* C3 witness: two disjoint partitions with readings, yielded against the
\* order of the dates, both merged
C3_Witness ==
    /\ Fetched /\ DisjointPartitions
    /\ \E a, b \in Idx(yielded) :
          /\ a < b /\ yielded[a] > yielded[b]
          /\ \A i \in {yielded[a], yielded[b]} : PartReadings(i, "godstow") # <<>>
    /\ \E a, b \in Idx(writes) : writes[a][2] # writes[b][2]

\* the clock reading the last cutoff was taken from, moved back n days
CutoffInstant(n) == MinusDays(now, n)

\* a stored timestamp is at or after the cutoff instant
AtOrAfter(ts, n) == ~DtLess(FromIsoFormat(ts).dt, CutoffInstant(n))

\* C4: the trim keeps a reading exactly when its instant is at or after the
\* cutoff instant, and keeps its value.  Of the timestamps of history_dict that
\* are dates, update_history returns those at or after now - 14 days, and
\* fetch_historic_data returns for every channel those of all_readings at or
\* after now - 365 days, each with the value it had.
C4_TrimByInstant ==
    /\ Updated =>
        /\ \A ts \in DOMAIN history_dict :
              FromIsoFormat(ts).ok => (ts \in Timestamps(filtered) <=> AtOrAfter(ts, days))
        /\ \A i \in Idx(filtered) :
              /\ filtered[i].timestamp \in DOMAIN history_dict
              /\ filtered[i].value = history_dict[filtered[i].timestamp]
    /\ (Fetched /\ pc = "save_historic") =>
        \A k \in KeySet :
            /\ \A ts \in DOMAIN all_readings[k] :
                  FromIsoFormat(ts).ok =>
                      (ts \in Timestamps(raw_data[k]) <=> AtOrAfter(ts, max_age_days))
            /\ \A i \in Idx(raw_data[k]) :
                  /\ raw_data[k][i].timestamp \in DOMAIN all_readings[k]
                  /\ raw_data[k][i].value = all_readings[k][raw_data[k][i].timestamp]

\* a row of the archive CSV that is well formed and on the 2-hour grid, and
\* the reading it stands for
WellFormed(row) ==
    /\ ~row.short
    /\ \E k \in KeySet : MEASURE_URLS[k] = row.measure
    /\ OnGrid(FromIsoFormat(row.dateTime))
    /\ ~Contains(row.value, Ord["|"])
    /\ PyFloat(row.value).ok
ReadingOfRow(row) == [timestamp |-> row.dateTime, value |-> PyFloat(row.value).val]
KeyOfRow(row) == CHOOSE k \in KeySet : MEASURE_URLS[k] = row.measure

\* the answer of the archive server to the request of partition i
Answer(i) == archive[dates[i]]
Answered200(i) == Answer(i).kind = "ok" /\ Answer(i).status = 200

\* C5: a malformed row is dropped alone.  When the fetch of a day that was
\* answered with status 200 has finished, it has returned readings, among them
\* the reading of every well-formed row of the answer, and none whose
\* timestamp is not a date.
C5_OnlyMalformedRowDropped ==
    UpdateModel =>
        \A i \in Idx(futures) :
            (futures[i].state = "done" /\ Answered200(i)) =>
                /\ futures[i].result.ok
                /\ \A n \in Idx(Answer(i).rows) :
                      WellFormed(Answer(i).rows[n]) =>
                          \E m \in Idx(PartReadings(i, KeyOfRow(Answer(i).rows[n]))) :
                              PartReadings(i, KeyOfRow(Answer(i).rows[n]))[m]
                                  = ReadingOfRow(Answer(i).rows[n])
                /\ \A k \in KeySet : \A ts \in Timestamps(PartReadings(i, k)) :
                      FromIsoFormat(ts).ok

\* the fetch of partition i timed out, raised or got a status other than 200
Failed(i) == ~Answered200(i)

\* the timestamps that the loaded file and the partitions whose fetch returned
\* readings hold for channel k
Contributed(k) ==
    DOMAIN loaded[k]
        \cup UNION {Timestamps(PartReadings(i, k)) : i \in {j \in Idx(futures) : ~Failed(j)}}

\* C6: a failed partition contributes nothing and stops nothing.  The fetch of
\* a day that timed out, raised or was answered with another status than 200
\* returns no readings; nothing ends the run while fetch_historic_data is at
\* work; and what fetch_historic_data returns holds, for every channel, exactly
\* the timestamps not below the cutoff string that the loaded file or a
\* partition that returned readings holds, with the merged values.
C6_FailedPartitionIsolated ==
    UpdateModel =>
        /\ \A i \in Idx(futures) :
              (futures[i].state = "done" /\ Failed(i)) => ~futures[i].result.ok
        /\ ~Fetched => error = ""
        /\ (Fetched /\ pc = "save_historic") =>
              \A k \in KeySet :
                  /\ Timestamps(raw_data[k]) = {ts \in Contributed(k) : StrGe(ts, cutoff)}
                  /\ \A n \in Idx(raw_data[k]) :
                        raw_data[k][n].value = MergedValue(k, raw_data[k][n].timestamp)

\* C6 witness: fetch_historic_data has returned although the fetch of one day
\* failed, with readings of the loaded file and of another day in its result
C6_Witness ==
    /\ Fetched /\ pc = "save_historic"
    /\ \E i, j \in Idx(futures) :
          /\ Failed(i)
          /\ Timestamps(PartReadings(j, "godstow")) \cap Timestamps(raw_data["godstow"]) # {}
    /\ DOMAIN loaded["godstow"] \cap Timestamps(raw_data["godstow"]) # {}

\* C7: a regression that fails for want of samples ends only the regression
\* step.  main ends early only with the OSError of a file it cannot write:
\* never with the ValueError of calculate_model_parameters.
C7_OnlyArchiveFailureEndsRun ==
    (UpdateModel /\ pc = "crashed") => error = "OSError"

\* calculate_model_parameters has been called on 'historic' and has returned
\* or raised
Called ==
    \/ pc \in {"farmoor_decay", "diff_decay", "save_model", "done"}
    \/ pc = "crashed" /\ error \in {"ValueError", "ZeroDivisionError"}

\* the timestamps present in all three channels of 'historic', and the sample
\* each of them stands for: x = farmoor, y = godstow - osney - 1.63
CommonStamps ==
    Timestamps(historic.godstow_history) \cap Timestamps(historic.osney_history)
        \cap Timestamps(historic.farmoor_history)
SampleX(ts) == LastValue(historic.farmoor_history, ts)
SampleY(ts) ==
    (LastValue(historic.godstow_history, ts) - LastValue(historic.osney_history, ts))
        - FlowOffset
SampleCount == Cardinality(CommonStamps)
\* the distinct samples <<x, y>>
Samples == {<<SampleX(ts), SampleY(ts)>> : ts \in CommonStamps}
XVaries == Cardinality({p[1] : p \in Samples}) > 1
YConstant == Cardinality({p[2] : p \in Samples}) = 1
OnLine(a, b) == \A p \in Samples : p[2] = a * p[1] + b

\* C8: the samples are the timestamps of all three channels, and 100 of them
\* are enough.  With n such timestamps calculate_model_parameters raises
\* ValueError when n < 100 and returns a model with n_samples = n when
\* n >= 100.
C8_PairedSampleLimit ==
    Called =>
        IF SampleCount < MinPaired
        THEN pc = "crashed" /\ error = "ValueError"
        ELSE error = "" /\ params.n_samples = SampleCount

\* C9: an exact line is recovered.  For at least 100 samples on
\* y = a * x + b with a # 0 and x not constant, calculate_model_parameters
\* returns slope a, intercept b, r_squared 1 and the correlation +1 or -1 of
\* the sign of a.
C9_ExactLine ==
    (Called /\ SampleCount >= MinPaired /\ XVaries) =>
        \A a \in Slopes \ {0}, b \in Intercepts :
            OnLine(a, b) =>
                /\ error = ""
                /\ params.slope = <<a, 1>>
                /\ params.intercept = <<b, 1>>
                /\ params.r_squared = <<1, 1>>
                /\ params.correlation =
                      [sign |-> IF a > 0 THEN 1 ELSE -1, square |-> <<1, 1>>]
                /\ params.n_samples = SampleCount

\* C9 witness: calculate_model_parameters has returned for at least 100
\* samples on y = 2x + 1
C9_Witness ==
    /\ Called /\ error = ""
    /\ SampleCount >= MinPaired /\ XVaries /\ OnLine(2, 100)

\* C10: a slope of 0 ends only the thresholds.  For at least 100 samples with
\* one y and several x, calculate_model_parameters still gives the slope 0,
\* the other results of the regression and n_samples.
C10_ZeroSlopeKeepsRegression ==
    (Called /\ SampleCount >= MinPaired /\ XVaries /\ YConstant) =>
        /\ error # "ZeroDivisionError"
        /\ params.slope = <<0, 1>>
        /\ params.n_samples = SampleCount

(***************************************************************************)
(* _find_peaks                                                             *)
(***************************************************************************)

\* _find_peaks runs or has returned
FindingPeaks == script = "_find_peaks"

\* the value and the instant of the reading at the 0-based index i
ValueAt(i) == frame.readings[i + 1][2]
InstantAt(i) == frame.readings[i + 1][1]

\* the reading at i is a candidate peak: not below min_peak and the largest of
\* readings[i - window .. i + window]
IsCandidate(i) ==
    /\ ValueAt(i) >= frame.min_peak
    /\ \A j \in (i - frame.window)..(i + frame.window) : ValueAt(j) <= ValueAt(i)

\* instant b is more than min_gap after instant a
GapExceeded(a, b) == DtLess(PlusDays(a, frame.min_gap), b)

\* C11: every peak of the list, at every step and on return, is a reading at an
\* index i with window <= i <= len(readings) - window - 1, its value is at
\* least min_peak and is the maximum of readings[i - window .. i + window];
\* the list returned is the list _find_peaks computes, and for the series
\* [0, 1, 5, 9, 5, 1, 0] with window 1, min_peak 0 and min_gap 0 it is the one
\* peak at index 3 with value 9.
C11_PeaksAreWindowMaxima ==
    FindingPeaks =>
        /\ \A k \in Idx(frame.peaks) :
              LET i == frame.peaks[k][1]
              IN  /\ frame.window <= i /\ i <= Len(frame.readings) - frame.window - 1
                  /\ frame.peaks[k] = <<i, InstantAt(i), ValueAt(i)>>
                  /\ IsCandidate(i)
        /\ pc = "done" =>
              /\ frame.returned = _find_peaks(frame.readings, frame.min_peak, frame.window,
                                              frame.min_gap)
              /\ ( /\ frame.readings = SeriesOf(ExampleSeries, 2)
                   /\ frame.window = 1 /\ frame.min_peak = 0 /\ frame.min_gap = 0 )
                  => frame.returned = <<<<3, AtHour(6), 9>>>>

\* the example series has been scanned and its one peak returned
C11_Witness ==
    /\ FindingPeaks /\ pc = "done"
    /\ frame.readings = SeriesOf(ExampleSeries, 2)
    /\ frame.window = 1 /\ frame.min_peak = 0 /\ frame.min_gap = 0
    /\ Len(frame.returned) = 1

\* C12: after every step of the scan the accepted peaks are in strictly
\* ascending order of index and of instant, and any two consecutive ones are
\* more than min_gap apart.
C12_PeaksAscendingAndApart ==
    FindingPeaks =>
        \A k \in 1..(Len(frame.peaks) - 1) :
            /\ frame.peaks[k][1] < frame.peaks[k + 1][1]
            /\ DtLess(frame.peaks[k][2], frame.peaks[k + 1][2])
            /\ GapExceeded(frame.peaks[k][2], frame.peaks[k + 1][2])

\* two peaks are accepted, the last of which replaced an earlier candidate
\* that had been appended after the first
C12_Witness ==
    /\ FindingPeaks /\ Len(frame.peaks) >= 2
    /\ LET n == Len(frame.peaks)
       IN  \E j \in (frame.peaks[n - 1][1] + 1)..(frame.peaks[n][1] - 1) :
              /\ IsCandidate(j)
              /\ GapExceeded(frame.peaks[n - 1][2], InstantAt(j))

\* C13: a step whose reading is a candidate appends it when no peak is
\* accepted yet or it is more than min_gap after the last accepted one, the
\* earlier peaks staying as they are; otherwise the number of accepted peaks
\* stays, the peaks before the last stay, and the last becomes the candidate
\* when its value is larger and stays when the values are equal or smaller.
C13_MergeOrAppend ==
    [][ (FindPeaksStep /\ IsCandidate(frame.i)) =>
            LET old  == frame.peaks
                new  == frame'.peaks
                cand == <<frame.i, InstantAt(frame.i), ValueAt(frame.i)>>
            IN  IF old = <<>> \/ GapExceeded(old[Len(old)][2], cand[2])
                THEN new = Append(old, cand)
                ELSE /\ Len(new) = Len(old)
                     /\ \A k \in 1..(Len(old) - 1) : new[k] = old[k]
                     /\ new[Len(new)] = IF cand[3] > old[Len(old)][3] THEN cand
                                         ELSE old[Len(old)] ]_vars

\* a candidate within min_gap of the last accepted peak and of the same value
\* has been passed over
C13_Witness ==
    /\ FindingPeaks /\ frame.peaks # <<>>
    /\ LET last == frame.peaks[Len(frame.peaks)]
       IN  \E j \in (last[1] + 1)..(frame.i - 1) :
              /\ IsCandidate(j)
              /\ ValueAt(j) = last[3]
              /\ ~GapExceeded(last[2], InstantAt(j))

(***************************************************************************)
(* _fit_exponential_decay                                                  *)
(***************************************************************************)

\* _fit_exponential_decay runs or has returned, and the loop body has run
Fitting == script = "_fit_exponential_decay"
Processed == Fitting /\ frame.p_idx > 0

\* the peak the loop body ran for last, and what became of it
LastPeak == frame.peaks[frame.p_idx]
Outcome == frame.locals.outcome

\* the 0-based indices the baseline of a peak at idx is to be taken from:
\* idx-84 .. idx-13 when there is such a reading, else all before the peak
BaselineIndices(idx) ==
    LET from == IF idx - BaselineFrom > 0 THEN idx - BaselineFrom ELSE 0
    IN  IF from <= idx - BaselineTo - 1 THEN from..(idx - BaselineTo - 1)
        ELSE from..(idx - 1)

\* C14: for the peak at idx the baseline readings are the readings at the
\* indices idx-84 .. idx-13 when there is one, else the readings before the
\* peak, so all at indices below idx; the baseline is their minimum, and a
\* peak with no reading before it is skipped.
C14_BaselineBeforePeak ==
    Processed =>
        LET idx == LastPeak[1]
            baseline_readings == frame.locals.baseline_readings
        IN  /\ baseline_readings =
                    [k \in 1..Cardinality(BaselineIndices(idx)) |->
                        frame.readings[MinOf(BaselineIndices(idx)) + k]]
            /\ (BaselineIndices(idx) = {}) <=> (Outcome.status = "no_baseline")
            /\ Outcome.status \notin {"no_baseline", "small_amplitude"}
                    => Outcome.baseline = MinOf({ValueAt(j) : j \in BaselineIndices(idx)})

\* the peak of the list a fit belongs to
PeakOfFit(f) == CHOOSE p \in Idx(frame.peaks) : frame.peaks[p][2] = f.peak_time

\* 0.01 < (val - baseline) / amplitude <= 1.0, for an amplitude above 0
InBand(val, baseline, amplitude) ==
    100 * (val - baseline) > amplitude /\ val - baseline <= amplitude

\* the outcomes of the loop body for the peaks it has run for
OutcomesSoFar ==
    [p \in 1..frame.p_idx |->
        FitPeak(frame.readings, frame.peaks, p, frame.min_rise_threshold)]

IsFit(outcome) == outcome.status = "fit"

\* C15: every fit of the results meets the acceptance conditions: amplitude =
\* peak_val - baseline >= min_rise_threshold, at least 6 decay points, at
\* least 4 fit points, which are the decay points with a ratio in (0.01, 1],
\* tau_hours > 0, half_life_hours = tau_hours * ln 2, r_squared > 0.5; the
\* results are the fits of the peaks that meet them, in the order of the
\* peaks, whatever became of the other peaks, and no error ends the call.
C15_FitsMeetAcceptance ==
    Fitting =>
        /\ error = ""
        /\ \A n \in Idx(frame.results) :
              LET f   == frame.results[n]
                  p   == PeakOfFit(f)
                  pts == DecayPoints(frame.readings, frame.peaks, p, frame.min_rise_threshold)
              IN  /\ f.peak_val = frame.peaks[p][3]
                  /\ f.amplitude = f.peak_val - f.baseline
                  /\ f.amplitude >= frame.min_rise_threshold
                  /\ f.decay_points = Len(pts) /\ f.decay_points >= 6
                  /\ f.fit_points >= 4
                  /\ f.fit_points =
                        Cardinality({k \in Idx(pts) : InBand(pts[k][2], f.baseline, f.amplitude)})
                  /\ f.tau_hours.coef[1] > 0 /\ f.tau_hours.unit = "1/ln2"
                  /\ f.half_life_hours = Num(f.tau_hours.coef, "1")
                  /\ RLess(<<1, 2>>, f.r_squared)
        /\ frame.results = SelectSeq(OutcomesSoFar, IsFit)
        /\ pc = "done" =>
              frame.returned = _fit_exponential_decay(frame.readings, frame.peaks,
                                                      frame.min_rise_threshold)

\* a call has returned one fit for two peaks, the other peak being rejected
C15_Witness ==
    /\ Fitting /\ pc = "done"
    /\ Len(frame.peaks) = 2 /\ Len(frame.returned) = 1

\* the readings are consecutive points of the 2-hour grid
ConsecutiveGrid ==
    \A j \in 1..(Len(frame.readings) - 1) :
        HoursBetween(InstantAt(j), InstantAt(j - 1)) = <<2, 1>>

\* hours of the reading at j since the last peak
HoursSincePeak(j) == HoursBetween(InstantAt(j), LastPeak[2])

\* the last peak has a next peak, and the reading at j is at or after it
AtNextPeak(j) ==
    /\ frame.p_idx < Len(frame.peaks)
    /\ ~DtLess(InstantAt(j), frame.peaks[frame.p_idx + 1][2])

\* more than 12 hours after the peak the value at j is more than
\* min_rise_threshold above the value three grid points before
Rerise(j) ==
    /\ RLess(RInt(ReriseAfterHours), HoursSincePeak(j))
    /\ ValueAt(j) > ValueAt(j - ReriseSpan) + frame.min_rise_threshold

\* the first index from the peak on at which the collection is to stop
FirstStop ==
    LET idx == LastPeak[1]
    IN  MinOf({j \in idx..Len(frame.readings) :
                  \/ j = Len(frame.readings)
                  \/ j = idx + MaxLookahead
                  \/ AtNextPeak(j)
                  \/ Rerise(j)})

\* the loop body reached the collection of the decay points
Collected == Processed /\ Outcome.status \notin {"no_baseline", "small_amplitude"}

Summarised == script = "_summarise_decay" /\ pc = "done"

\* the arithmetic mean of a non-empty list of rationals
MeanOf(xs) == RDiv(RSum(xs), RInt(Len(xs)))

\* the median of a non-empty list of rationals: the middle one of the sorted
\* values, the mean of the two middle ones when their number is even
MedianOf(xs) ==
    LET n      == Len(xs)
        sorted == SortedRats(xs)
    IN  IF n % 2 = 1 THEN sorted[(n + 1) \div 2]
        ELSE RDiv(RAdd(sorted[n \div 2], sorted[(n \div 2) + 1]), RInt(2))

TausOf(fits) == [i \in Idx(fits) |-> fits[i].tau_hours.coef]
HalfLivesOf(fits) == [i \in Idx(fits) |-> fits[i].half_life_hours.coef]

\* C16: for a non-empty list of fits _summarise_decay returns n_peaks = the
\* number of fits, the arithmetic means of the fits' tau and half-life values
\* as tau_hours_mean and half_life_hours_mean, and their medians as
\* tau_hours_median and half_life_hours_median, for lists of odd and of even
\* length (15 for two fits with tau 10 and 20).
C16_SummaryMeansAndMedians ==
    (Summarised /\ frame.fits # <<>>) =>
        /\ frame.returned.n_peaks = Len(frame.fits)
        /\ frame.returned.tau_hours_mean = Num(MeanOf(TausOf(frame.fits)), "1")
        /\ frame.returned.half_life_hours_mean = Num(MeanOf(HalfLivesOf(frame.fits)), "ln2")
        /\ frame.returned.tau_hours_median = Num(MedianOf(TausOf(frame.fits)), "1")
        /\ frame.returned.half_life_hours_median =
              Num(MedianOf(HalfLivesOf(frame.fits)), "ln2")


(***************************************************************************)
(* The decay summaries of the two channels                                 *)
(***************************************************************************)

FarmoorCall == script = "calculate_farmoor_decay"
DiffCall == script = "calculate_flow_differential_decay"

\* the readings of the call, and their peaks and accepted fits
CallReadings ==
    IF FarmoorCall THEN _to_2h_readings(frame.data.farmoor_history)
    ELSE DifferentialReadings(DictOfReadings(frame.data.godstow_history),
                              DictOfReadings(frame.data.osney_history))
PeaksOf(readings) ==
    _find_peaks(readings, IF FarmoorCall THEN FarmoorMinPeak ELSE DiffMinPeak,
                PeakWindow, MinGapDays)
FitsOf(readings) ==
    _fit_exponential_decay(readings, PeaksOf(readings),
                           IF FarmoorCall THEN FarmoorMinRise ELSE DiffMinRise)

\* the June to September values among the readings
SummerValues(readings) ==
    LET summer == {i \in Idx(readings) : CivilDate(readings[i][1].day).month \in {6, 7, 8, 9}}
    IN  [i \in summer |-> readings[i][2]]

\* the baseline the caller supplies: 0 for the differential; for Farmoor the
\* summer value with at most half of the summer values below it and more than
\* half of them not above it, 1.0 when there is no summer value
IsSuppliedBaseline(b, vals) ==
    IF DiffCall THEN b = 0
    ELSE IF DOMAIN vals = {} THEN b = 100
    ELSE /\ \E i \in DOMAIN vals : vals[i] = b
         /\ Cardinality({i \in DOMAIN vals : vals[i] < b}) <= Cardinality(DOMAIN vals) \div 2
         /\ Cardinality({i \in DOMAIN vals : vals[i] <= b}) > Cardinality(DOMAIN vals) \div 2

\* the summary of a call without an accepted fit
IsDefaultSummary(summary, default_tau, readings) ==
    /\ summary.tau_hours_mean = Num(<<default_tau, 1>>, "1")
    /\ summary.tau_hours_median = Num(<<default_tau, 1>>, "1")
    /\ summary.half_life_hours_mean = Num(<<default_tau, 1>>, "ln2")
    /\ summary.half_life_hours_median = Num(<<default_tau, 1>>, "ln2")
    /\ IsSuppliedBaseline(summary.baseline, SummerValues(readings))
    /\ summary.n_peaks = 0

\* C17: when no fit is accepted (no peaks, every peak rejected, or an empty
\* channel) the decay summary is returned all the same, with the caller's
\* default tau (112 hours for Farmoor, 70 for the flow differential) as mean
\* and median tau, default tau * ln 2 as both half-life values, the caller's
\* baseline and n_peaks = 0.
C17_DefaultsWithoutFit ==
    ((FarmoorCall \/ DiffCall) /\ pc = "done") =>
        LET readings == List(CallReadings)
        IN  FitsOf(readings) = <<>> =>
                IsDefaultSummary(frame.returned, IF FarmoorCall THEN 112 ELSE 70, readings)

\* C17 witness: calculate_farmoor_decay has returned for a channel with
\* summer readings and a peak, the fit of which was rejected
C17_Witness ==
    /\ FarmoorCall /\ pc = "done"
    /\ LET readings == List(CallReadings)
       IN  /\ PeaksOf(readings) # <<>> /\ FitsOf(readings) = <<>>
           /\ DOMAIN SummerValues(readings) # {}
    /\ frame.returned.n_peaks = 0


(***************************************************************************)
(* _to_2h_readings                                                         *)
(***************************************************************************)

\* _to_2h_readings has returned
Aligned == script = "_to_2h_readings" /\ pc = "done"

\* the reading's value is present, its timestamp is a date, its hour is a
\* multiple of 2 and its minute is 0
IsKept(r) ==
    /\ "value" \in DOMAIN r
    /\ FromIsoFormat(r.timestamp).ok
    /\ FromIsoFormat(r.timestamp).dt.hour % 2 = 0
    /\ FromIsoFormat(r.timestamp).dt.minute = 0

\* the inputs kept, and those of them that stand for a pair <<dt, value>>
KeptInputs == {i \in Idx(frame.history_list) : IsKept(frame.history_list[i])}
InputsOf(pair) ==
    {i \in KeptInputs : /\ FromIsoFormat(frame.history_list[i].timestamp).dt = pair[1]
                        /\ frame.history_list[i].value = pair[2]}

\* C18: _to_2h_readings returns exactly the input readings whose value is
\* present, whose timestamp parses, whose hour is a multiple of 2 and whose
\* minute is 0, each as often as the input holds it, sorted ascending by
\* instant; the other readings are dropped and the call returns.
C18_GridAlignment ==
    Aligned =>
        /\ Len(frame.returned) = Cardinality(KeptInputs)
        /\ \A n \in Idx(frame.returned) :
              Cardinality({m \in Idx(frame.returned) : frame.returned[m] = frame.returned[n]})
                  = Cardinality(InputsOf(frame.returned[n]))
        /\ \A m, n \in Idx(frame.returned) :
              m < n => ~DtLess(frame.returned[n][1], frame.returned[m][1])

\* C18 witness: a call has returned two readings in another order than the
\* input held them, having dropped a reading without a value
C18_Witness ==
    /\ Aligned
    /\ Len(frame.returned) = 2
    /\ DtLess(frame.returned[1][1], frame.returned[2][1])
    /\ frame.history_list[1] \in HistoryItems /\ IsKept(frame.history_list[1])
    /\ FromIsoFormat(frame.history_list[1].timestamp).dt = frame.returned[2][1]
    /\ \E i \in Idx(frame.history_list) : "value" \notin DOMAIN frame.history_list[i]


(***************************************************************************)
(* calculate_percentile                                                    *)
(***************************************************************************)

\* calculate_percentile has returned for a list that is not empty
PercentileDone == script = "calculate_percentile" /\ pc = "done" /\ frame.values # <<>>

\* the value at the 0-based position k of the values in ascending order
OrderStat(k) ==
    CHOOSE v \in Range(frame.values) :
        /\ Cardinality({i \in Idx(frame.values) : frame.values[i] < v}) <= k
        /\ Cardinality({i \in Idx(frame.values) : frame.values[i] <= v}) > k

\* index = (p / 100) * (n - 1) in hundredths, its floor and its ceiling
IndexTimes100 == frame.percentile * (Len(frame.values) - 1)
FloorIndex == IndexTimes100 \div 100
CeilIndex == FloorIndex + (IF IndexTimes100 % 100 = 0 THEN 0 ELSE 1)

\* the linear interpolation between the values at floor(index) and
\* ceil(index), the last value when ceil(index) is beyond the list
Interpolated ==
    IF CeilIndex > Len(frame.values) - 1 THEN RInt(OrderStat(Len(frame.values) - 1))
    ELSE Rat(100 * OrderStat(FloorIndex)
                 + (OrderStat(CeilIndex) - OrderStat(FloorIndex)) * (IndexTimes100 % 100),
             100)

\* the result of the call
PercentileResult ==
    /\ ~frame.returned.is_none
    /\ frame.returned.val = Interpolated
    /\ ~RLess(frame.returned.val, RInt(MinOf(Range(frame.values))))
    /\ ~RLess(RInt(MaxOf(Range(frame.values))), frame.returned.val)
    /\ frame.percentile = 0 => frame.returned.val = RInt(MinOf(Range(frame.values)))
    /\ frame.percentile = 100 => frame.returned.val = RInt(MaxOf(Range(frame.values)))
    /\ frame.values = <<10, 20, 30, 40>> =>
          /\ frame.percentile = 50 => frame.returned.val = <<25, 1>>
          /\ frame.percentile = 0 => frame.returned.val = <<10, 1>>
          /\ frame.percentile = 100 => frame.returned.val = <<40, 1>>

Regressed == Processed /\ Outcome.status \in {"fit", "poor_fit"}

\* the (hours, ln ratio) points of the last peak
LastLogPoints == LogPoints(frame.locals.decay_points, Outcome.baseline, Outcome.amplitude)

\* the least-squares line through a list of points with at least two
\* distinct x
LineThrough(pts) ==
    LET n      == Len(pts)
        sum_x  == RSum([k \in 1..n |-> pts[k][1]])
        sum_y  == RSum([k \in 1..n |-> pts[k][2]])
        sum_xy == RSum([k \in 1..n |-> RMul(pts[k][1], pts[k][2])])
        sum_xx == RSum([k \in 1..n |-> RMul(pts[k][1], pts[k][1])])
        slope  == RDiv(RSub(RMul(RInt(n), sum_xy), RMul(sum_x, sum_y)),
                       RSub(RMul(RInt(n), sum_xx), RMul(sum_x, sum_x)))
    IN  [slope |-> slope,
         intercept |-> RDiv(RSub(sum_y, RMul(slope, sum_x)), RInt(n))]

\* 1 - SSres / SStot of a line for a list of points whose y are not all equal
RSquaredOf(pts, line) ==
    LET n      == Len(pts)
        mean_y == RDiv(RSum([k \in 1..n |-> pts[k][2]]), RInt(n))
        dev    == [k \in 1..n |-> RSub(pts[k][2], mean_y)]
        resid  == [k \in 1..n |->
                      RSub(pts[k][2], RAdd(RMul(line.slope, pts[k][1]), line.intercept))]
    IN  RSub(RInt(1), RDiv(RSum([k \in 1..n |-> RMul(resid[k], resid[k])]),
                           RSum([k \in 1..n |-> RMul(dev[k], dev[k])])))

\* C21: the r_sq that decides whether a fit is accepted is 1 - SSres / SStot
\* of the least-squares line (slope and intercept) through the (hours,
\* ln ratio) points, the line whose slope gives tau; so it lies between 0
\* and 1.
C21_RSquaredOfFittedLine ==
    Regressed =>
        /\ Outcome.r_squared = RSquaredOf(LastLogPoints, LineThrough(LastLogPoints))
        /\ ~RLess(Outcome.r_squared, <<0, 1>>)
        /\ ~RLess(<<1, 1>>, Outcome.r_squared)


(***************************************************************************)
(* The result of fetch_historic_data and the steps of main after it        *)
(***************************************************************************)

\* main is at or past a step that reads 'historic'
Computing == UpdateModel /\ pc \in {"regression", "farmoor_decay", "diff_decay", "save_model", "done"}

\* fetch_historic_data has just returned
Returning == UpdateModel /\ pc = "save_historic"

\* every submitted fetch has completed and has been taken by the main thread,
\* which is in no merge
AllFetchesTaken ==
    /\ \A i \in Idx(futures) : futures[i].state = "done"
    /\ Range(yielded) = Idx(futures)
    /\ pos = 0

\* every reading the fetches returned is merged, and the result is the trim
\* of the merged readings
ResultOfMergedReadings ==
    /\ \A i \in Idx(futures), k \in KeySet :
          Timestamps(PartReadings(i, k)) \subseteq DOMAIN all_readings[k]
    /\ raw_data = [k \in KeySet |-> TrimOldestFirst(all_readings[k], cutoff)]

\* the channels of 'historic' are those of the result
HistoricOfResult ==
    /\ historic.godstow_history = raw_data["godstow"]
    /\ historic.osney_history = raw_data["osney"]
    /\ historic.farmoor_history = raw_data["farmoor"]

\* a step after the result is built touches neither the fetches nor the
\* merged readings nor the result, nor 'historic' once main has built it
StepOnResult ==
    /\ futures' = futures /\ yielded' = yielded /\ writes' = writes
    /\ all_readings' = all_readings /\ raw_data' = raw_data
    /\ Computing => historic' = historic

\* C22: the trim and the series fetch_historic_data returns are computed
\* only after every submitted fetch has completed and its readings are
\* merged: when it returns, the result is the trim of all merged readings;
\* from then on no fetch runs and no merge happens, the merged readings and
\* the result stay as they are, and the regression, the peak detection and
\* the decay fits of main run on 'historic', which holds that result.
C22_ResultAfterAllFetches ==
    /\ [](Fetched => AllFetchesTaken)
    /\ [](Returning => ResultOfMergedReadings)
    /\ [](Computing => HistoricOfResult)
    /\ [][Fetched => StepOnResult]_vars

\* C22 witness: the decay fits are about to run on a result that two
\* fetches with readings, yielded against the order of the dates, went into
C22_Witness ==
    /\ UpdateModel /\ pc = "farmoor_decay"
    /\ \E a, b \in Idx(yielded) :
          /\ a < b /\ yielded[a] > yielded[b]
          /\ \A i \in {yielded[a], yielded[b]} : PartReadings(i, "godstow") # <<>>
    /\ raw_data["godstow"] # <<>>


=============================================================================
